---- MODULE Spec2Model ----
(***************************************************************************)
(* A model of synedrion's threshold ECDSA engine (CGGMP21): the            *)
(* pre-signing rounds, the signing round, the key share update and the     *)
(* key-refresh Round 2 checks.                                             *)
(*                                                                         *)
(* The curve is the secp256k1 equation y^2 = x^3 + 7 taken over F_13: its  *)
(* group has prime order 7 and generator (7, 5).  A point is held as its   *)
(* multiple of the generator (0 is the identity), so point addition is     *)
(* addition modulo the order and scalar multiplication is multiplication.  *)
(* A Paillier ciphertext is held as the residue it encrypts (modulo the    *)
(* key's modulus N); the encryption randomizers are left out.              *)
(***************************************************************************)
EXTENDS Integers, Sequences, FiniteSets, TLC

VARIABLES
    stage,          \* position of the protocol run (the test harness steps all parties together)
    num_parties,    \* n
    key_shares,     \* key_shares[i]: the KeyShare of party i
    message,        \* the message scalar m
    rng,            \* rng[i]: the seed of party i's random stream
    rounds,         \* rounds[i]: the round object party i currently holds
    results,        \* results[i]: what party i's last finalize returned
    tamper,         \* what the misbehaving peer changed in flight, if anything
    ks_update,      \* KeyShare::update / KeyShare::new: the input, the change and the output
    kr_session,     \* the key-refresh session of the misbehaviour tests
    sigma,          \* a sigma proof: the inputs, the proof made of them and the verdict on it
    hasher,         \* a hasher: the byte strings chained and the byte stream absorbed
    bounded,        \* a Bounded value and the calls that made it
    machine,        \* a round state machine: its state and the calls made on it
    power           \* an exponentiation of the integer kit: its inputs and its result

vars == <<stage, num_parties, key_shares, message, rng, rounds, results, tamper,
          ks_update, kr_session,
                   sigma, hasher, bounded, machine, power>>

----
\* Bounds of the model.

\* Runs have 2..MaxParties parties.
MaxParties == 3

\* Every party draws its random values from one of the streams 0..MaxSeed.
MaxSeed == 2

----
\* The curve (crate::curve, a wrapper of k256).

CurveOrder == 7

Scalars == 0 .. (CurveOrder - 1)

Points == 0 .. (CurveOrder - 1)

GENERATOR == 1

IDENTITY == 0

\* x-coordinates, reduced modulo the order, of 1*G .. 6*G on y^2 = x^3 + 7 over F_13:
\* (7,5) (8,5) (11,8) (11,5) (8,8) (7,8).
XCoordinates == <<0, 1, 4, 4, 1, 0>>

ScalarAdd(a, b) == (a + b) % CurveOrder

ScalarMul(a, b) == (a * b) % CurveOrder

ScalarNeg(a) == (CurveOrder - a) % CurveOrder

\* Scalar::invert: a CtOption, none for zero.
ScalarInvert(a) ==
    IF a = 0 THEN [is_some |-> FALSE, value |-> 0]
    ELSE [is_some |-> TRUE,
          value |-> CHOOSE b \in Scalars : (a * b) % CurveOrder = 1]

PointAdd(p, q) == (p + q) % CurveOrder

PointMul(p, s) == (p * s) % CurveOrder

mul_by_generator(s) == PointMul(GENERATOR, s)

\* Point::x_coordinate: the affine x reduced to a scalar; the identity's x bytes are zero.
x_coordinate(p) == IF p = IDENTITY THEN 0 ELSE XCoordinates[p]

\* ECDSA verification of (r, s) for the prehash m under the key point vkey.
EcdsaVerifies(r, s, vkey, m) ==
    /\ r # 0
    /\ s # 0
    /\ vkey # IDENTITY
    /\ LET s_inv == ScalarInvert(s).value
           u1 == ScalarMul(m, s_inv)
           u2 == ScalarMul(r, s_inv)
           cap_r == PointAdd(mul_by_generator(u1), PointMul(vkey, u2))
       IN  /\ cap_r # IDENTITY
           /\ x_coordinate(cap_r) = r

----
\* Scheme parameters (SchemeParams), scaled to the curve order: scalars fit L_BOUND bits.

L_BOUND == 3

LP_BOUND == 3

Pow2(b) == 2 ^ b

Abs(v) == IF v < 0 THEN 0 - v ELSE v

Max(a, b) == IF a >= b THEN a ELSE b

\* Signed::from_scalar: the scalar as a non-negative integer.
from_scalar(s) == s

\* Signed::to_scalar: reduction modulo the curve order (a negative value wraps).
to_scalar(v) == v % CurveOrder

\* Signed::assert_bound_usize: some value iff the magnitude fits `bound` bits.
assert_bound_usize(v, bound) == [is_some |-> Abs(v) < Pow2(bound), value |-> v]

----
\* Paillier (crate::paillier), at the level of plaintext residues.

\* The safe primes of each party's key.
PaillierPrimes == << <<47, 59>>, <<83, 107>>, <<59, 83>>, <<47, 107>>, <<59, 107>> >>

\* The modulus N of party i's key; the model names a key, public or secret, by its N.
PaillierModulus(i) == PaillierPrimes[i + 1][1] * PaillierPrimes[i + 1][2]

\* Ciphertext::new_with_randomizer / new_with_randomizer_signed.
Encrypt(pk, m) == m % pk

\* Ciphertext::homomorphic_mul / homomorphic_mul_unsigned.
homomorphic_mul(pk, c, x) == (c * x) % pk

\* Ciphertext::homomorphic_add.
homomorphic_add(pk, c1, c2) == (c1 + c2) % pk

\* Ciphertext::decrypt_signed: the plaintext centered into (-N/2, N/2].
decrypt_signed(sk, c) ==
    LET v == c % sk
    IN  IF 2 * v > sk THEN v - sk ELSE v

\* Ciphertexts with their randomizers, for the checks that tell two encryptions of one
\* plaintext apart: a ciphertext (1 + N)^m * rho^N is the pair of m and the exponent of
\* rho to a fixed base, so that products of randomizers are sums.

\* Ciphertext::new_with_randomizer_signed / new_public_with_randomizer_signed.
Ciphertext_new_with_randomizer(pk, plaintext, randomizer) ==
    [pk |-> pk, plaintext |-> plaintext % pk, randomizer |-> randomizer % pk]

\* Ciphertext + Ciphertext.
Ciphertext_add(c1, c2) ==
    [pk |-> c1.pk,
     plaintext |-> (c1.plaintext + c2.plaintext) % c1.pk,
     randomizer |-> (c1.randomizer + c2.randomizer) % c1.pk]

\* Ciphertext * PublicSigned.
Ciphertext_mul(c, k) ==
    [pk |-> c.pk,
     plaintext |-> (c.plaintext * k) % c.pk,
     randomizer |-> (c.randomizer * k) % c.pk]

\* CiphertextWire::to_precomputed(pk): a ciphertext in wire form, which holds no key,
\* read under the key pk.
Rekeyed(c, pk) == [pk |-> pk, plaintext |-> c.plaintext % pk, randomizer |-> c.randomizer % pk]

\* Ciphertext::mul_randomizer: the ciphertext times randomizer^N.
Ciphertext_mul_randomizer(c, randomizer) ==
    [c EXCEPT !.randomizer = (@ + randomizer) % c.pk]

----
\* Randomness: party i reads its stream rng[i] at fixed positions.

RngDraw(seed, pos) == seed * (2 * pos + 1) + pos * pos

\* Scalar::random.
random_scalar(seed, pos) == RngDraw(seed, pos) % CurveOrder

\* RandomizerMod::random(rng, pk).
RandomizerMod_random(seed, pos, pk) == RngDraw(seed, pos) % pk

\* Signed::random_bounded_bits: a value in [-2^bits, 2^bits].
random_bounded_bits(seed, pos, bits) ==
    (RngDraw(seed, pos) % (2 * Pow2(bits) + 1)) - Pow2(bits)

----
\* Collections (crate::tools::collections).

\* HoleRange::new(n, hole): the indices 0..n-1 without the hole.
HoleRange(n, hole) == (0 .. (n - 1)) \ {hole}

RECURSIVE SumOver(_, _)
SumOver(f, S) ==
    IF S = {} THEN 0
    ELSE LET j == CHOOSE e \in S : TRUE
         IN  f[j] + SumOver(f, S \ {j})

\* Sum of scalars.
ScalarSum(f, S) == SumOver(f, S) % CurveOrder

\* Sum of points.
PointSum(f, S) == SumOver(f, S) % CurveOrder

----
\* Sigma proofs, idealised: a proof records the statement its witness satisfies and
\* whether the witness is within the range the proof asserts; verification accepts
\* exactly the recorded statement, ring-Pedersen setup and aux of an in-range witness.
\* Ciphertexts are compared as the residues they encrypt; a proof keeps the randomizers
\* it was made with beside them.

shared_randomness == "shared_randomness"

\* EncProof::random(rng, secret, randomizer, sk, aux_rp, aux).
EncProof_random(secret, randomizer, sk, aux_rp, aux) ==
    [pk |-> sk, cap_k |-> Encrypt(sk, secret), randomizer |-> randomizer,
     rp |-> aux_rp, aux |-> aux,
     in_range |-> Abs(secret) <= Pow2(L_BOUND)]

EncProof_verify(proof, pk, cap_k, aux_rp, aux) ==
    /\ proof.pk = pk
    /\ proof.cap_k = cap_k
    /\ proof.rp = aux_rp
    /\ proof.aux = aux
    /\ proof.in_range

\* AffGProof::random(rng, x, y, s, r, pk0, pk1, cap_c, aux_rp, aux):
\* D = C * x + enc_0(-y; s), Y = enc_1(y; r), X = g * x.
AffGProof_random(x, y, s, r, pk0, pk1, cap_c, aux_rp, aux) ==
    [pk0 |-> pk0, pk1 |-> pk1, cap_c |-> cap_c, s |-> s, r |-> r,
     cap_d |-> homomorphic_add(pk0, homomorphic_mul(pk0, cap_c, x), Encrypt(pk0, 0 - y)),
     cap_y |-> Encrypt(pk1, y),
     cap_x |-> mul_by_generator(to_scalar(x)),
     rp |-> aux_rp, aux |-> aux,
     in_range |-> Abs(x) <= Pow2(L_BOUND) /\ Abs(y) <= Pow2(LP_BOUND)]

AffGProof_verify(proof, pk0, pk1, cap_c, cap_d, cap_y, cap_x, aux_rp, aux) ==
    /\ proof.pk0 = pk0
    /\ proof.pk1 = pk1
    /\ proof.cap_c = cap_c
    /\ proof.cap_d = cap_d
    /\ proof.cap_y = cap_y
    /\ proof.cap_x = cap_x
    /\ proof.rp = aux_rp
    /\ proof.aux = aux
    /\ proof.in_range

\* LogStarProof::random(rng, x, rho, pk, g, aux_rp, aux): C = enc(x; rho), X = g * x.
LogStarProof_random(x, rho, pk, g, aux_rp, aux) ==
    [pk |-> pk, cap_c |-> Encrypt(pk, x), rho |-> rho, g |-> g,
     cap_x |-> PointMul(g, to_scalar(x)),
     rp |-> aux_rp, aux |-> aux,
     in_range |-> Abs(x) <= Pow2(L_BOUND)]

LogStarProof_verify(proof, pk, cap_c, g, cap_x, aux_rp, aux) ==
    /\ proof.pk = pk
    /\ proof.cap_c = cap_c
    /\ proof.g = g
    /\ proof.cap_x = cap_x
    /\ proof.rp = aux_rp
    /\ proof.aux = aux
    /\ proof.in_range

\* MulProof::random(rng, x, rho_x, rho, pk, cap_y, aux): X = enc(x; rho_x), C = Y * x * rho^N,
\* on ciphertexts with their randomizers.
MulProof_random(x, rho_x, rho, pk, cap_y, aux) ==
    [pk |-> pk, cap_x |-> Ciphertext_new_with_randomizer(pk, x, rho_x), cap_y |-> cap_y,
     cap_c |-> Ciphertext_mul_randomizer(Ciphertext_mul(cap_y, x), rho), aux |-> aux]

MulProof_verify(proof, pk, cap_x, cap_y, cap_c, aux) ==
    /\ proof.pk = pk
    /\ proof.cap_x = cap_x
    /\ proof.cap_y = cap_y
    /\ proof.cap_c = cap_c
    /\ proof.aux = aux

\* MulStarProof::random(rng, x, rho, pk, cap_c, aux_rp, aux): D = C * x * rho^N, X = g * x.
MulStarProof_random(x, pk, cap_c, aux_rp, aux) ==
    [pk |-> pk, cap_c |-> cap_c, cap_d |-> homomorphic_mul(pk, cap_c, x),
     cap_x |-> mul_by_generator(to_scalar(x)), rp |-> aux_rp, aux |-> aux]

\* DecProof::random(rng, y, rho, pk, rp, aux): C = enc(y; rho), x = y mod q.
DecProof_random(y, pk, rp, aux) ==
    [pk |-> pk, x |-> to_scalar(y), cap_c |-> Encrypt(pk, y), rp |-> rp, aux |-> aux]

DecProof_verify(proof, pk, x, cap_c, rp, aux) ==
    /\ proof.pk = pk
    /\ proof.x = x
    /\ proof.cap_c = cap_c
    /\ proof.rp = rp
    /\ proof.aux = aux

----
\* Key shares as the rounds of cggmp21/protocols read them (KeySharePrecomputed).

PublicAux(j) ==
    [paillier_pk |-> PaillierModulus(j),
     aux_rp_params |-> <<"aux_rp", j>>,
     rp_params |-> <<"rp", j>>]

\* KeyShare::new_centralized: consistent shares of the secrets xs.
CentralizedKeyShare(n, xs, i) ==
    [index |-> i,
     secret_share |-> xs[i],
     public_shares |-> [j \in 0 .. (n - 1) |-> mul_by_generator(xs[j])],
     paillier_sk |-> PaillierModulus(i),
     public_aux |-> [j \in 0 .. (n - 1) |-> PublicAux(j)]]

\* KeyShare::num_parties.
ks_num_parties(ks) == Cardinality(DOMAIN ks.public_shares)

\* KeyShare::verifying_key_as_point: the sum of all public shares.
ks_verifying_key_as_point(ks) == PointSum(ks.public_shares, DOMAIN ks.public_shares)

----
\* Pre-signing Round 1.

PresigningRound1_new(seed, party_idx, key_share) ==
    LET ephemeral_scalar_share == random_scalar(seed, 0)
        gamma == random_scalar(seed, 1)
        pk == key_share.paillier_sk
    IN  [context |-> [key_share |-> key_share,
                      ephemeral_scalar_share |-> ephemeral_scalar_share,
                      gamma |-> gamma,
                      rho |-> RandomizerMod_random(seed, 8, pk),
                      nu |-> RandomizerMod_random(seed, 9, pk),
                      seed |-> seed],
         k_ciphertext |-> Encrypt(pk, ephemeral_scalar_share),
         g_ciphertext |-> Encrypt(pk, gamma)]

PresigningRound1_make_broadcast(round) ==
    [k_ciphertext |-> round.k_ciphertext, g_ciphertext |-> round.g_ciphertext]

PresigningRound1_make_direct_message(round, destination) ==
    EncProof_random(
        from_scalar(round.context.ephemeral_scalar_share),
        round.context.rho,
        round.context.key_share.paillier_sk,
        round.context.key_share.public_aux[destination].aux_rp_params,
        <<shared_randomness, destination>>)

\* The peers whose EncProof fails, as finalize_to_next_round checks them.
PresigningRound1_failed(round, ciphertexts, proofs) ==
    LET ks == round.context.key_share
    IN  {from \in DOMAIN ciphertexts :
            ~EncProof_verify(proofs[from],
                             ks.public_aux[from].paillier_pk,
                             ciphertexts[from].k_ciphertext,
                             ks.public_aux[ks.index].aux_rp_params,
                             <<shared_randomness, ks.index>>)}

PresigningRound1_finalize_to_next_round(round, ciphertexts, proofs) ==
    LET ks == round.context.key_share
        failed == PresigningRound1_failed(round, ciphertexts, proofs)
    IN  IF failed # {}
        THEN [kind |-> "provable",
              party |-> CHOOSE from \in failed : \A o \in failed : from <= o,
              error |-> "Round1: Failed to verify EncProof"]
        ELSE [kind |-> "next_round",
              round |->
                [context |-> round.context,
                 k_ciphertexts |->
                    [j \in 0 .. (ks_num_parties(ks) - 1) |->
                        IF j = ks.index THEN round.k_ciphertext
                        ELSE ciphertexts[j].k_ciphertext],
                 g_ciphertexts |->
                    [j \in 0 .. (ks_num_parties(ks) - 1) |->
                        IF j = ks.index THEN round.g_ciphertext
                        ELSE ciphertexts[j].g_ciphertext]]]

----
\* Pre-signing Round 2.

\* Variant of the Round 2 message whose mask beta is 2l bits longer.
PresigningRound2_make_direct_message_wide_mask(round, idx) ==
    LET ctx == round.context
        ks == ctx.key_share
        aux == <<shared_randomness, ks.index>>
        gamma == mul_by_generator(ctx.gamma)
        pk == ks.paillier_sk
        target_pk == ks.public_aux[idx].paillier_pk
        beta == random_bounded_bits(ctx.seed, 2 + 2 * idx, LP_BOUND) * Pow2(2 * L_BOUND)
        beta_hat == random_bounded_bits(ctx.seed, 3 + 2 * idx, LP_BOUND)
        cap_f == Encrypt(pk, beta)
        d == homomorphic_add(target_pk,
                 homomorphic_mul(target_pk, round.k_ciphertexts[idx], from_scalar(ctx.gamma)),
                 Encrypt(target_pk, 0 - beta))
        d_hat == homomorphic_add(target_pk,
                 homomorphic_mul(target_pk, round.k_ciphertexts[idx], from_scalar(ks.secret_share)),
                 Encrypt(target_pk, 0 - beta_hat))
        f_hat == Encrypt(pk, beta_hat)
        r == <<"r", ks.index, idx>>
        s == <<"s", ks.index, idx>>
        r_hat == <<"hat_r", ks.index, idx>>
        s_hat == <<"hat_s", ks.index, idx>>
        aux_rp == ks.public_aux[idx].aux_rp_params
    IN  [msg |->
            [gamma |-> gamma, d |-> d, f |-> cap_f, d_hat |-> d_hat, f_hat |-> f_hat,
             psi |-> AffGProof_random(from_scalar(ctx.gamma), beta, s, r, target_pk, pk,
                                      round.k_ciphertexts[idx], aux_rp, aux),
             psi_hat |-> AffGProof_random(from_scalar(ks.secret_share), beta_hat, s_hat, r_hat,
                                          target_pk, pk,
                                          round.k_ciphertexts[idx], aux_rp, aux),
             psi_hat_prime |-> LogStarProof_random(from_scalar(ctx.gamma), ctx.nu, pk,
                                                   GENERATOR, aux_rp, aux)],
         artefact |->
            [beta |-> beta, beta_hat |-> beta_hat,
             r |-> r, s |-> s, hat_r |-> r_hat, hat_s |-> s_hat,
             cap_f |-> cap_f, hat_cap_f |-> f_hat]]

PresigningRound2_make_direct_message(round, idx) ==
    LET ctx == round.context
        ks == ctx.key_share
        aux == <<shared_randomness, ks.index>>
        gamma == mul_by_generator(ctx.gamma)
        pk == ks.paillier_sk
        target_pk == ks.public_aux[idx].paillier_pk
        beta == random_bounded_bits(ctx.seed, 2 + 2 * idx, LP_BOUND)
        beta_hat == random_bounded_bits(ctx.seed, 3 + 2 * idx, LP_BOUND)
        cap_f == Encrypt(pk, beta)
        d == homomorphic_add(target_pk,
                 homomorphic_mul(target_pk, round.k_ciphertexts[idx], from_scalar(ctx.gamma)),
                 Encrypt(target_pk, 0 - beta))
        d_hat == homomorphic_add(target_pk,
                 homomorphic_mul(target_pk, round.k_ciphertexts[idx], from_scalar(ks.secret_share)),
                 Encrypt(target_pk, 0 - beta_hat))
        f_hat == Encrypt(pk, beta_hat)
        r == <<"r", ks.index, idx>>
        s == <<"s", ks.index, idx>>
        r_hat == <<"hat_r", ks.index, idx>>
        s_hat == <<"hat_s", ks.index, idx>>
        aux_rp == ks.public_aux[idx].aux_rp_params
    IN  [msg |->
            [gamma |-> gamma, d |-> d, f |-> cap_f, d_hat |-> d_hat, f_hat |-> f_hat,
             psi |-> AffGProof_random(from_scalar(ctx.gamma), beta, s, r, target_pk, pk,
                                      round.k_ciphertexts[idx], aux_rp, aux),
             psi_hat |-> AffGProof_random(from_scalar(ks.secret_share), beta_hat, s_hat, r_hat,
                                          target_pk, pk,
                                          round.k_ciphertexts[idx], aux_rp, aux),
             psi_hat_prime |-> LogStarProof_random(from_scalar(ctx.gamma), ctx.nu, pk,
                                                   GENERATOR, aux_rp, aux)],
         artefact |->
            [beta |-> beta, beta_hat |-> beta_hat,
             r |-> r, s |-> s, hat_r |-> r_hat, hat_s |-> s_hat,
             cap_f |-> cap_f, hat_cap_f |-> f_hat]]

\* Variant of the Round 2 verification that checks psi_hat before psi.
PresigningRound2_verify_direct_message_reordered(round, from, msg) ==
    LET ks == round.context.key_share
        aux == <<shared_randomness, from>>
        pk == ks.paillier_sk
        from_pk == ks.public_aux[from].paillier_pk
        big_x == ks.public_shares[from]
        aux_rp == ks.public_aux[ks.index].aux_rp_params
        alpha == assert_bound_usize(decrypt_signed(ks.paillier_sk, msg.d),
                                    Max(2 * L_BOUND, LP_BOUND) + 1)
        alpha_hat == to_scalar(decrypt_signed(ks.paillier_sk, msg.d_hat))
    IN  IF ~AffGProof_verify(msg.psi_hat, pk, from_pk, round.k_ciphertexts[ks.index],
                             msg.d_hat, msg.f_hat, big_x, aux_rp, aux)
        THEN [kind |-> "provable", error |-> "Round2: Failed to verify AffGProof (psi_hat)"]
        ELSE IF ~AffGProof_verify(msg.psi, pk, from_pk, round.k_ciphertexts[ks.index],
                                  msg.d, msg.f, msg.gamma, aux_rp, aux)
        THEN [kind |-> "provable", error |-> "Round2: Failed to verify AffGProof (psi)"]
        ELSE IF ~LogStarProof_verify(msg.psi_hat_prime, from_pk, round.g_ciphertexts[from],
                                     GENERATOR, msg.gamma, aux_rp, aux)
        THEN [kind |-> "provable", error |-> "Round2: Failed to verify LogStarProof"]
        ELSE IF ~alpha.is_some
        THEN [kind |-> "panic", error |-> "assert_bound_usize"]
        ELSE [kind |-> "payload",
              payload |-> [gamma |-> msg.gamma, alpha |-> alpha.value,
                           alpha_hat |-> alpha_hat,
                           cap_d |-> msg.d, hat_cap_d |-> msg.d_hat]]

PresigningRound2_verify_direct_message(round, from, msg) ==
    LET ks == round.context.key_share
        aux == <<shared_randomness, from>>
        pk == ks.paillier_sk
        from_pk == ks.public_aux[from].paillier_pk
        big_x == ks.public_shares[from]
        aux_rp == ks.public_aux[ks.index].aux_rp_params
        alpha == assert_bound_usize(decrypt_signed(ks.paillier_sk, msg.d),
                                    Max(2 * L_BOUND, LP_BOUND) + 1)
        alpha_hat == to_scalar(decrypt_signed(ks.paillier_sk, msg.d_hat))
    IN  IF ~AffGProof_verify(msg.psi, pk, from_pk, round.k_ciphertexts[ks.index],
                             msg.d, msg.f, msg.gamma, aux_rp, aux)
        THEN [kind |-> "provable", error |-> "Round2: Failed to verify AffGProof (psi)"]
        ELSE IF ~AffGProof_verify(msg.psi_hat, pk, from_pk, round.k_ciphertexts[ks.index],
                                  msg.d_hat, msg.f_hat, big_x, aux_rp, aux)
        THEN [kind |-> "provable", error |-> "Round2: Failed to verify AffGProof (psi_hat)"]
        ELSE IF ~LogStarProof_verify(msg.psi_hat_prime, from_pk, round.g_ciphertexts[from],
                                     GENERATOR, msg.gamma, aux_rp, aux)
        THEN [kind |-> "provable", error |-> "Round2: Failed to verify LogStarProof"]
        ELSE IF ~alpha.is_some
        THEN [kind |-> "panic", error |-> "assert_bound_usize"]
        ELSE [kind |-> "payload",
              payload |-> [gamma |-> msg.gamma, alpha |-> alpha.value,
                           alpha_hat |-> alpha_hat,
                           cap_d |-> msg.d, hat_cap_d |-> msg.d_hat]]

\* Variant of chi_i that leaves out the party's own masks beta_hat_ij.
PresigningRound2_product_share_unmasked(round, dm_payloads, dm_artefacts) ==
    LET ctx == round.context
        peers == DOMAIN dm_payloads
        alpha_hat_sum == ScalarSum([j \in peers |-> dm_payloads[j].alpha_hat], peers)
    IN  ScalarAdd(ScalarMul(ctx.key_share.secret_share, ctx.ephemeral_scalar_share),
                  alpha_hat_sum)

\* chi_i: x_i * k_i + sum_j alpha_hat_ij + (sum_j beta_hat_ij).to_scalar().
PresigningRound2_product_share(round, dm_payloads, dm_artefacts) ==
    LET ctx == round.context
        peers == DOMAIN dm_payloads
        alpha_hat_sum == ScalarSum([j \in peers |-> dm_payloads[j].alpha_hat], peers)
        beta_hat_sum == SumOver([j \in peers |-> dm_artefacts[j].beta_hat], peers)
    IN  ScalarAdd(ScalarAdd(ScalarMul(ctx.key_share.secret_share, ctx.ephemeral_scalar_share),
                            alpha_hat_sum),
                  to_scalar(beta_hat_sum))

PresigningRound2_finalize_to_next_round(round, dm_payloads, dm_artefacts) ==
    LET ctx == round.context
        peers == DOMAIN dm_payloads
        gamma == PointAdd(PointSum([j \in peers |-> dm_payloads[j].gamma], peers),
                          mul_by_generator(ctx.gamma))
        big_delta == PointMul(gamma, ctx.ephemeral_scalar_share)
        delta == from_scalar(ctx.gamma) * from_scalar(ctx.ephemeral_scalar_share)
                 + SumOver([j \in peers |-> dm_payloads[j].alpha], peers)
                 + SumOver([j \in peers |-> dm_artefacts[j].beta], peers)
        product_share == PresigningRound2_product_share(round, dm_payloads, dm_artefacts)
    IN  [context |-> ctx,
         delta |-> delta,
         product_share |-> product_share,
         big_delta |-> big_delta,
         big_gamma |-> gamma,
         k_ciphertexts |-> round.k_ciphertexts,
         g_ciphertexts |-> round.g_ciphertexts,
         cap_ds |-> [j \in peers |-> dm_payloads[j].cap_d],
         hat_cap_d |-> [j \in peers |-> dm_payloads[j].hat_cap_d],
         round2_artefacts |-> dm_artefacts]

----
\* Pre-signing Round 3.

\* Variant of the Round 3 message whose proof is made for the aux of its destination.
PresigningRound3_make_direct_message_for_destination(round, idx) ==
    LET ks == round.context.key_share
        aux == <<shared_randomness, idx>>
        pk == ks.paillier_sk
        aux_rp == ks.public_aux[idx].aux_rp_params
    IN  [delta |-> to_scalar(round.delta),
         big_delta |-> round.big_delta,
         psi_hat_pprime |->
            LogStarProof_random(from_scalar(round.context.ephemeral_scalar_share),
                                round.context.rho, pk, round.big_gamma, aux_rp, aux)]

PresigningRound3_make_direct_message(round, idx) ==
    LET ks == round.context.key_share
        aux == <<shared_randomness, ks.index>>
        pk == ks.paillier_sk
        aux_rp == ks.public_aux[idx].aux_rp_params
    IN  [delta |-> to_scalar(round.delta),
         big_delta |-> round.big_delta,
         psi_hat_pprime |->
            LogStarProof_random(from_scalar(round.context.ephemeral_scalar_share),
                                round.context.rho, pk, round.big_gamma, aux_rp, aux)]

PresigningRound3_verify_direct_message(round, from, msg) ==
    LET ks == round.context.key_share
        aux == <<shared_randomness, from>>
        from_pk == ks.public_aux[from].paillier_pk
        aux_rp == ks.public_aux[ks.index].aux_rp_params
    IN  IF ~LogStarProof_verify(msg.psi_hat_pprime, from_pk, round.k_ciphertexts[from],
                                round.big_gamma, msg.big_delta, aux_rp, aux)
        THEN [kind |-> "provable", error |-> "Round3: Failed to verify Log-Star proof"]
        ELSE [kind |-> "payload",
              payload |-> [delta |-> msg.delta, big_delta |-> msg.big_delta]]

\* The sum of all delta_j, the party's own included.
PresigningRound3_delta(round, dm_payloads) ==
    ScalarAdd(ScalarSum([j \in DOMAIN dm_payloads |-> dm_payloads[j].delta], DOMAIN dm_payloads),
              to_scalar(round.delta))

\* The sum of all Delta_j, the party's own included.
PresigningRound3_big_delta(round, dm_payloads) ==
    PointAdd(PointSum([j \in DOMAIN dm_payloads |-> dm_payloads[j].big_delta], DOMAIN dm_payloads),
             round.big_delta)

\* Variant of the success branch that multiplies by delta instead of its inverse.
PresigningRound3_success_uninverted(round, delta) ==
    LET inv == ScalarInvert(delta)
        my_idx == round.context.key_share.index
        peers == DOMAIN round.round2_artefacts
    IN  IF ~inv.is_some
        THEN [kind |-> "panic", error |-> "called unwrap on a none value (delta.invert())"]
        ELSE [kind |-> "success",
              data |->
                [nonce |-> PointMul(round.big_gamma, delta),
                 ephemeral_scalar_share |-> round.context.ephemeral_scalar_share,
                 product_share |-> round.product_share,
                 hat_beta |-> [j \in peers |-> round.round2_artefacts[j].beta_hat],
                 hat_r |-> [j \in peers |-> round.round2_artefacts[j].hat_r],
                 hat_s |-> [j \in peers |-> round.round2_artefacts[j].hat_s],
                 cap_k |-> round.k_ciphertexts[my_idx],
                 hat_cap_d |-> round.hat_cap_d,
                 hat_cap_f |-> [j \in peers |-> round.round2_artefacts[j].hat_cap_f]]]

\* The success branch: `&self.big_gamma * &delta.invert().unwrap()` and the PresigningData.
PresigningRound3_success(round, delta) ==
    LET inv == ScalarInvert(delta)
        my_idx == round.context.key_share.index
        peers == DOMAIN round.round2_artefacts
    IN  IF ~inv.is_some
        THEN [kind |-> "panic", error |-> "called unwrap on a none value (delta.invert())"]
        ELSE [kind |-> "success",
              data |->
                [nonce |-> PointMul(round.big_gamma, inv.value),
                 ephemeral_scalar_share |-> round.context.ephemeral_scalar_share,
                 product_share |-> round.product_share,
                 hat_beta |-> [j \in peers |-> round.round2_artefacts[j].beta_hat],
                 hat_r |-> [j \in peers |-> round.round2_artefacts[j].hat_r],
                 hat_s |-> [j \in peers |-> round.round2_artefacts[j].hat_s],
                 cap_k |-> round.k_ciphertexts[my_idx],
                 hat_cap_d |-> round.hat_cap_d,
                 hat_cap_f |-> [j \in peers |-> round.round2_artefacts[j].hat_cap_f]]]

\* The abort branch: the correctness proofs, with the assertions the code makes on them.
\* The party's own K_i and G_i are taken with the randomizers rho and nu they were made
\* with in Round1::new; the ciphertexts of the dec proof are compared by plaintext, the
\* proof being made with the randomizer derived from the combined ciphertext.
PresigningRound3_abort(round) ==
    LET ctx == round.context
        ks == ctx.key_share
        pk == ks.paillier_sk
        my_idx == ks.index
        num == ks_num_parties(ks)
        aux == <<shared_randomness, ks.index>>
        range == HoleRange(num, my_idx)
        aff_g_proofs ==
            [p \in range \X range |->
                AffGProof_random(from_scalar(ctx.gamma), round.round2_artefacts[p[1]].beta,
                                 round.round2_artefacts[p[1]].s, round.round2_artefacts[p[1]].r,
                                 ks.public_aux[p[1]].paillier_pk, pk,
                                 round.k_ciphertexts[p[1]],
                                 ks.public_aux[p[2]].aux_rp_params, aux)]
        cap_k == Ciphertext_new_with_randomizer(pk, round.k_ciphertexts[my_idx], ctx.rho)
        cap_g == Ciphertext_new_with_randomizer(pk, round.g_ciphertexts[my_idx], ctx.nu)
        rho == RandomizerMod_random(ctx.seed, 10, pk)
        cap_h == Ciphertext_mul_randomizer(Ciphertext_mul(cap_k, from_scalar(ctx.gamma)), rho)
        p_mul == MulProof_random(from_scalar(ctx.ephemeral_scalar_share), ctx.rho, rho, pk,
                                 cap_g, aux)
        ciphertext ==
            (cap_h.plaintext + SumOver([j \in range |-> round.cap_ds[j] + round.round2_artefacts[j].cap_f],
                             range)) % pk
        dec_proofs ==
            [j \in range |-> DecProof_random(round.delta, pk, ks.public_aux[j].rp_params, aux)]
    IN  IF ~MulProof_verify(p_mul, pk, cap_k, cap_g, cap_h, aux)
        THEN [kind |-> "panic", error |-> "assertion failed: p_mul.verify"]
        ELSE IF \E j \in range :
                    ~DecProof_verify(dec_proofs[j], pk, to_scalar(round.delta), ciphertext,
                                     ks.public_aux[j].rp_params, aux)
        THEN [kind |-> "panic", error |-> "assertion failed: p_dec.verify"]
        ELSE [kind |-> "proof",
              proof |-> [aff_g_proofs |-> aff_g_proofs,
                         mul_proof |-> p_mul,
                         dec_proofs |-> dec_proofs]]

PresigningRound3_finalize_to_result(round, dm_payloads) ==
    LET delta == PresigningRound3_delta(round, dm_payloads)
        big_delta == PresigningRound3_big_delta(round, dm_payloads)
    IN  IF mul_by_generator(delta) = big_delta
        THEN PresigningRound3_success(round, delta)
        ELSE PresigningRound3_abort(round)

----
\* The signing round of cggmp21/protocols/signing.rs.

\* RecoverableSignature::from_scalars: some signature iff (r, s) is well-formed and the
\* verifying key is recovered from it and the message, that is, iff it verifies.
RecoverableSignature_from_scalars(r, s, vkey, m) ==
    [is_some |-> EcdsaVerifies(r, s, vkey, m), r |-> r, s |-> s]

SigningRound1_new(num, party_idx, context) ==
    LET r == x_coordinate(context.presigning.nonce)
        s_part == ScalarAdd(ScalarMul(context.presigning.ephemeral_scalar_share, context.message),
                            ScalarMul(r, context.presigning.product_share))
    IN  [r |-> r, s_part |-> s_part, context |-> context,
         num_parties |-> num, party_idx |-> party_idx]

SigningRound1_make_broadcast(round) == [s_part |-> round.s_part]

\* verify_broadcast accepts every s_part.
SigningRound1_verify_broadcast(round, from, msg) == msg.s_part

\* s: the sum of the received shares and the party's own.
SigningRound1_s(round, shares) ==
    ScalarAdd(ScalarSum(shares, DOMAIN shares), round.s_part)

\* The panic finalize_to_result ends with while it builds the proofs, if any: the loops
\* index key_share.public_aux and unwrap the entries `get` returns of the pre-signing
\* data's HoleVecs, for every index of HoleRange(num_parties, party_idx) in its order.
SigningRound1_proof_panic(round) ==
    LET ks == round.context.key_share
        presigning == round.context.presigning
        range == HoleRange(round.num_parties, round.party_idx)
        held(j) == /\ j \in DOMAIN presigning.hat_beta
                   /\ j \in DOMAIN presigning.hat_s
                   /\ j \in DOMAIN presigning.hat_r
        first == CHOOSE j \in range : \A k \in range : j <= k
        out_of_bounds == [kind |-> "panic", error |-> "index out of bounds (public_aux)"]
        unwrapped == [kind |-> "panic", error |-> "called unwrap on a None value (get)"]
    IN  IF range = {} THEN [kind |-> "none"]
        ELSE IF first \notin DOMAIN ks.public_aux THEN out_of_bounds
        ELSE IF ~held(first) THEN unwrapped
        ELSE IF \E l \in range : l \notin DOMAIN ks.public_aux THEN out_of_bounds
        ELSE IF \E j \in range : ~held(j) THEN unwrapped
        ELSE IF \E j \in range : j \notin DOMAIN presigning.hat_cap_d
                                 \/ j \notin DOMAIN presigning.hat_cap_f THEN unwrapped
        ELSE [kind |-> "none"]

\* The correctness proofs built when no signature could be assembled.  The aff-g proofs
\* take the round's party_idx into their aux, the mul* and dec proofs the index of the
\* key share.
SigningRound1_proof(round, s) ==
    LET ks == round.context.key_share
        presigning == round.context.presigning
        my_idx == round.party_idx
        range == HoleRange(round.num_parties, my_idx)
        pk == ks.paillier_sk
        x == ks.secret_share
        aux == <<shared_randomness, round.party_idx>>
        aux_of_share == <<shared_randomness, ks.index>>
        hat_cap_h == homomorphic_mul(pk, presigning.cap_k, from_scalar(x))
        ciphertext ==
            (hat_cap_h
             + homomorphic_mul(pk, presigning.cap_k, from_scalar(round.context.message))
             + SumOver([j \in range |-> presigning.hat_cap_d[j] + presigning.hat_cap_f[j]],
                       range)) % pk
    IN  IF SigningRound1_proof_panic(round).kind = "panic"
        THEN SigningRound1_proof_panic(round)
        ELSE
        [aff_g_proofs |->
            [p \in range \X range |->
                AffGProof_random(from_scalar(x), presigning.hat_beta[p[1]],
                                 presigning.hat_s[p[1]], presigning.hat_r[p[1]],
                                 ks.public_aux[p[1]].paillier_pk, pk, presigning.cap_k,
                                 ks.public_aux[p[2]].aux_rp_params, aux)],
         mul_star_proofs |->
            [l \in range |->
                MulStarProof_random(from_scalar(x), pk, presigning.cap_k,
                                    ks.public_aux[l].aux_rp_params, aux_of_share)],
         dec_proofs |->
            [l \in range |->
                DecProof_random(from_scalar(s), pk, ks.public_aux[l].rp_params,
                                aux_of_share)]]

SigningRound1_finalize_to_result(round, shares) ==
    LET s == SigningRound1_s(round, shares)
        sig == RecoverableSignature_from_scalars(
                   round.r, s, ks_verifying_key_as_point(round.context.key_share),
                   round.context.message)
    IN  IF sig.is_some
        THEN [kind |-> "signature", r |-> sig.r, s |-> sig.s]
        ELSE IF SigningRound1_proof_panic(round).kind = "panic"
        THEN SigningRound1_proof_panic(round)
        ELSE [kind |-> "proof", proof |-> SigningRound1_proof(round, s)]

----
\* The signing round of protocols/signing.rs.

\* Signature::from_scalars: an error for a zero r or s.
Signature_from_scalars(r, s) == [is_some |-> r # 0 /\ s # 0, r |-> r, s |-> s]

LegacyRound1_new(presigning, m, verifying_key) ==
    LET r == x_coordinate(presigning.nonce)
        s_part == ScalarAdd(ScalarMul(presigning.ephemeral_scalar_share, m),
                            ScalarMul(r, presigning.product_share))
    IN  [r |-> r, s_part |-> s_part, verifying_key |-> verifying_key, message |-> m]

LegacyRound1_verify_received(round, from, msg) == msg.s_part

\* Variant of finalize that returns the assembled signature without verifying it.
LegacyRound1_finalize_unverified(round, payloads) ==
    LET s == ScalarAdd(ScalarSum(payloads, DOMAIN payloads), round.s_part)
        sig == Signature_from_scalars(round.r, s)
    IN  IF ~sig.is_some
        THEN [kind |-> "panic", error |-> "called unwrap on an error value (from_scalars)"]
        ELSE [kind |-> "signature", r |-> sig.r, s |-> sig.s]

LegacyRound1_finalize(round, payloads) ==
    LET s == ScalarAdd(ScalarSum(payloads, DOMAIN payloads), round.s_part)
        sig == Signature_from_scalars(round.r, s)
    IN  IF ~sig.is_some
        THEN [kind |-> "panic", error |-> "called unwrap on an error value (from_scalars)"]
        ELSE IF ~EcdsaVerifies(sig.r, sig.s, round.verifying_key, round.message)
        THEN [kind |-> "panic", error |-> "Invalid signature created"]
        ELSE [kind |-> "signature", r |-> sig.r, s |-> sig.s]

----
\* The protocol run: as the tests' step functions do, every step takes all the parties
\* through one round (messages made, delivered and verified, then finalize).

\* The secret shares the runs start from.
SecretShareSamples == {0, 1, CurveOrder - 1}

Parties == 0 .. (num_parties - 1)

Peers(i) == HoleRange(num_parties, i)

NoRound == [kind |-> "none"]

NoResult == [kind |-> "none"]

NoTamper == [round |-> "none", party |-> 0, value |-> 0]

NoUpdate == [stage |-> "none"]

NoSession == [stage |-> "none"]

\* The value of a variable whose part of the model is at rest.
Idle == [stage |-> "none"]

InitRun ==
    /\ stage = "init"
    /\ num_parties \in 2 .. MaxParties
    /\ \E xs \in [0 .. (num_parties - 1) -> SecretShareSamples] :
          key_shares = [i \in 0 .. (num_parties - 1) |-> CentralizedKeyShare(num_parties, xs, i)]
    /\ message \in Scalars
    /\ rng \in [0 .. (num_parties - 1) -> 0 .. MaxSeed]
    /\ rounds = [i \in 0 .. (num_parties - 1) |-> NoRound]
    /\ results = [i \in 0 .. (num_parties - 1) |-> NoResult]
    /\ tamper = NoTamper
    /\ ks_update = NoUpdate
    /\ kr_session = NoSession
    /\ sigma = Idle
    /\ hasher = Idle
    /\ bounded = Idle
    /\ machine = Idle
    /\ power = Idle

\* Round1::new of pre-signing, for every party.
PresigningStart ==
    /\ stage = "init"
    /\ rounds' = [i \in Parties |-> PresigningRound1_new(rng[i], i, key_shares[i])]
    /\ stage' = "presigning1"
    /\ UNCHANGED <<num_parties, key_shares, message, rng, results, tamper>>
    /\ UNCHANGED <<ks_update, kr_session,
                   sigma, hasher, bounded, machine, power>>

\* Where a step leaves the run: the next rounds when every finalize gave one, else the
\* outcomes.
Advance(fin, next_stage) ==
    IF \A i \in Parties : fin[i].kind = "next_round"
    THEN /\ rounds' = [i \in Parties |-> fin[i].round]
         /\ stage' = next_stage
         /\ UNCHANGED results
    ELSE /\ results' = [i \in Parties |->
                          IF fin[i].kind = "next_round" THEN NoResult ELSE fin[i]]
         /\ stage' = "aborted"
         /\ UNCHANGED rounds

PresigningStep1 ==
    /\ stage = "presigning1"
    /\ LET fin == [i \in Parties |->
                     PresigningRound1_finalize_to_next_round(
                         rounds[i],
                         [j \in Peers(i) |-> PresigningRound1_make_broadcast(rounds[j])],
                         [j \in Peers(i) |-> PresigningRound1_make_direct_message(rounds[j], i)])]
       IN  Advance(fin, "presigning2")
    /\ UNCHANGED <<num_parties, key_shares, message, rng, tamper>>
    /\ UNCHANGED <<ks_update, kr_session,
                   sigma, hasher, bounded, machine, power>>

\* The first payload, in index order, that is no payload (a provable error or a panic).
FirstBad(received) ==
    LET bad == {j \in DOMAIN received : received[j].kind # "payload"}
        from == CHOOSE j \in bad : \A o \in bad : j <= o
    IN  IF received[from].kind = "panic" THEN received[from]
        ELSE [kind |-> "provable", party |-> from, error |-> received[from].error]

PresigningStep2 ==
    /\ stage = "presigning2"
    /\ LET out == [i \in Parties |->
                     [j \in Peers(i) |-> PresigningRound2_make_direct_message(rounds[i], j)]]
           received == [i \in Parties |->
                          [j \in Peers(i) |->
                              PresigningRound2_verify_direct_message(rounds[i], j, out[j][i].msg)]]
           fin == [i \in Parties |->
                     IF \A j \in Peers(i) : received[i][j].kind = "payload"
                     THEN [kind |-> "next_round",
                           round |-> PresigningRound2_finalize_to_next_round(
                                         rounds[i],
                                         [j \in Peers(i) |-> received[i][j].payload],
                                         [j \in Peers(i) |-> out[i][j].artefact])]
                     ELSE FirstBad(received[i])]
       IN  Advance(fin, "presigning3")
    /\ UNCHANGED <<num_parties, key_shares, message, rng, tamper>>
    /\ UNCHANGED <<ks_update, kr_session,
                   sigma, hasher, bounded, machine, power>>

\* What a misbehaving peer may send in place of its delta in Round 3.
Round3Tampers ==
    {NoTamper} \cup
    UNION {{[round |-> "presigning3", party |-> j, value |-> v] :
               v \in Scalars \ {to_scalar(rounds[j].delta)}} : j \in Parties}

PresigningStep3 ==
    /\ stage = "presigning3"
    /\ \E t \in Round3Tampers :
        LET sent(j, i) ==
                LET msg == PresigningRound3_make_direct_message(rounds[j], i)
                IN  IF t.round = "presigning3" /\ t.party = j
                    THEN [msg EXCEPT !.delta = t.value]
                    ELSE msg
            received == [i \in Parties |->
                           [j \in Peers(i) |->
                               PresigningRound3_verify_direct_message(rounds[i], j, sent(j, i))]]
        IN  /\ results' = [i \in Parties |->
                             IF \A j \in Peers(i) : received[i][j].kind = "payload"
                             THEN PresigningRound3_finalize_to_result(
                                      rounds[i], [j \in Peers(i) |-> received[i][j].payload])
                             ELSE FirstBad(received[i])]
            /\ tamper' = t
    /\ stage' = "presigned"
    /\ UNCHANGED <<num_parties, key_shares, message, rng, rounds>>
    /\ UNCHANGED <<ks_update, kr_session,
                   sigma, hasher, bounded, machine, power>>

\* Round1::new of the signing round, for every party, from its PresigningData.
SigningStart ==
    /\ stage = "presigned"
    /\ \A i \in Parties : results[i].kind = "success"
    /\ rounds' = [i \in Parties |->
                    SigningRound1_new(num_parties, i,
                                      [message |-> message,
                                       presigning |-> results[i].data,
                                       key_share |-> key_shares[i]])]
    /\ results' = [i \in Parties |-> NoResult]
    /\ stage' = "signing"
    /\ UNCHANGED <<num_parties, key_shares, message, rng, tamper>>
    /\ UNCHANGED <<ks_update, kr_session,
                   sigma, hasher, bounded, machine, power>>

\* What a misbehaving peer may broadcast in place of its s_part.
SigningTampers ==
    {NoTamper} \cup
    UNION {{[round |-> "signing", party |-> j, value |-> v] :
               v \in Scalars \ {rounds[j].s_part}} : j \in Parties}

SigningStep ==
    /\ stage = "signing"
    /\ \E t \in SigningTampers :
        LET sent(j) ==
                IF t.round = "signing" /\ t.party = j
                THEN [s_part |-> t.value]
                ELSE SigningRound1_make_broadcast(rounds[j])
        IN  /\ results' = [i \in Parties |->
                             SigningRound1_finalize_to_result(
                                 rounds[i],
                                 [j \in Peers(i) |->
                                     SigningRound1_verify_broadcast(rounds[i], j, sent(j))])]
            /\ tamper' = t
    /\ stage' = "signed"
    /\ UNCHANGED <<num_parties, key_shares, message, rng, rounds>>
    /\ UNCHANGED <<ks_update, kr_session,
                   sigma, hasher, bounded, machine, power>>

\* Round1::new of protocols/signing.rs, for every party.
LegacySigningStart ==
    /\ stage = "presigned"
    /\ \A i \in Parties : results[i].kind = "success"
    /\ rounds' = [i \in Parties |->
                    LegacyRound1_new(results[i].data, message,
                                     ks_verifying_key_as_point(key_shares[i]))]
    /\ results' = [i \in Parties |-> NoResult]
    /\ stage' = "legacy_signing"
    /\ UNCHANGED <<num_parties, key_shares, message, rng, tamper>>
    /\ UNCHANGED <<ks_update, kr_session,
                   sigma, hasher, bounded, machine, power>>

LegacySigningStep ==
    /\ stage = "legacy_signing"
    /\ \E t \in SigningTampers :
        LET sent(j) ==
                IF t.round = "signing" /\ t.party = j
                THEN [s_part |-> t.value]
                ELSE [s_part |-> rounds[j].s_part]
        IN  /\ results' = [i \in Parties |->
                             LegacyRound1_finalize(
                                 rounds[i],
                                 [j \in Peers(i) |->
                                     LegacyRound1_verify_received(rounds[i], j, sent(j))])]
            /\ tamper' = t
    /\ stage' = "legacy_signed"
    /\ UNCHANGED <<num_parties, key_shares, message, rng, rounds>>
    /\ UNCHANGED <<ks_update, kr_session,
                   sigma, hasher, bounded, machine, power>>

NextRun ==
    \/ PresigningStart
    \/ PresigningStep1
    \/ PresigningStep2
    \/ PresigningStep3
    \/ SigningStart
    \/ SigningStep
    \/ LegacySigningStart
    \/ LegacySigningStep

Init == InitRun

Next == NextRun

Spec == Init /\ [][Next]_vars

----
\* Key shares and their update (protocols/common.rs).  The public entries are a boxed
\* slice: a sequence, entry k+1 belonging to party index k.

Min(a, b) == IF a < b THEN a ELSE b

\* The points and scalars the shares and changes are drawn from.
PointSamples == {IDENTITY, GENERATOR, CurveOrder - 1}

\* A KeySharePublic (or the public part of a change): the share point and the auxiliary
\* public values, which are carried as they are.
KeySharePublic(share_pk, origin, k) ==
    [share_pk |-> share_pk,
     el_gamal_pk |-> <<origin, "el_gamal_pk", k>>,
     paillier_pk |-> <<origin, "paillier_pk", k>>,
     rp_generator |-> <<origin, "rp_generator", k>>,
     rp_power |-> <<origin, "rp_power", k>>]

KeyShareSecret(share_sk, origin) ==
    [share_sk |-> share_sk,
     paillier_sk |-> <<origin, "paillier_sk">>,
     el_gamal_sk |-> <<origin, "el_gamal_sk">>]

\* KeyShare and KeyShareChange have the same layout: index, secret, public.
KeyShareValues(origin) ==
    UNION {{[index |-> index,
             secret |-> KeyShareSecret(share_sk, origin),
             public |-> [k \in 1 .. n |-> KeySharePublic(pks[k], origin, k)]] :
               index \in 0 .. (n - 1), share_sk \in SecretShareSamples,
               pks \in [1 .. n -> PointSamples]} :
           n \in 2 .. MaxParties}

KeyShareSeedValues ==
    UNION {[share_sk : SecretShareSamples, share_pk : [1 .. n -> PointSamples]] :
           n \in 2 .. MaxParties}

\* KeyShare::new(seed, change).
KeyShare_new(seed, change) ==
    LET zipped == Min(Len(seed.share_pk), Len(change.public))
    IN  [index |-> change.index,
         secret |-> [share_sk |-> ScalarAdd(seed.share_sk, change.secret.share_sk),
                     paillier_sk |-> change.secret.paillier_sk,
                     el_gamal_sk |-> change.secret.el_gamal_sk],
         public |-> [k \in 1 .. zipped |->
                        [share_pk |-> PointAdd(seed.share_pk[k], change.public[k].share_pk),
                         el_gamal_pk |-> change.public[k].el_gamal_pk,
                         paillier_pk |-> change.public[k].paillier_pk,
                         rp_generator |-> change.public[k].rp_generator,
                         rp_power |-> change.public[k].rp_power]]]

\* Variant of update that takes the change's share points in place of the sums.
KeyShare_update_replacing(self, change) ==
    LET zipped == Min(Len(self.public), Len(change.public))
    IN  [index |-> change.index,
         secret |-> [share_sk |-> ScalarAdd(self.secret.share_sk, change.secret.share_sk),
                     paillier_sk |-> change.secret.paillier_sk,
                     el_gamal_sk |-> change.secret.el_gamal_sk],
         public |-> [k \in 1 .. zipped |->
                        [share_pk |-> change.public[k].share_pk,
                         el_gamal_pk |-> change.public[k].el_gamal_pk,
                         paillier_pk |-> change.public[k].paillier_pk,
                         rp_generator |-> change.public[k].rp_generator,
                         rp_power |-> change.public[k].rp_power]]]

\* Variant of update that keeps the old secret share.
KeyShare_update_keeping_secret(self, change) ==
    LET zipped == Min(Len(self.public), Len(change.public))
    IN  [index |-> change.index,
         secret |-> [share_sk |-> self.secret.share_sk,
                     paillier_sk |-> change.secret.paillier_sk,
                     el_gamal_sk |-> change.secret.el_gamal_sk],
         public |-> [k \in 1 .. zipped |->
                        [share_pk |-> PointAdd(self.public[k].share_pk,
                                               change.public[k].share_pk),
                         el_gamal_pk |-> change.public[k].el_gamal_pk,
                         paillier_pk |-> change.public[k].paillier_pk,
                         rp_generator |-> change.public[k].rp_generator,
                         rp_power |-> change.public[k].rp_power]]]

\* KeyShare::update(self, change).
KeyShare_update(self, change) ==
    LET zipped == Min(Len(self.public), Len(change.public))
    IN  [index |-> change.index,
         secret |-> [share_sk |-> ScalarAdd(self.secret.share_sk, change.secret.share_sk),
                     paillier_sk |-> change.secret.paillier_sk,
                     el_gamal_sk |-> change.secret.el_gamal_sk],
         public |-> [k \in 1 .. zipped |->
                        [share_pk |-> PointAdd(self.public[k].share_pk,
                                               change.public[k].share_pk),
                         el_gamal_pk |-> change.public[k].el_gamal_pk,
                         paillier_pk |-> change.public[k].paillier_pk,
                         rp_generator |-> change.public[k].rp_generator,
                         rp_power |-> change.public[k].rp_power]]]

\* KeyShare::verifying_key_as_point.
KeyShare_verifying_key_as_point(self) ==
    PointSum([k \in DOMAIN self.public |-> self.public[k].share_pk], DOMAIN self.public)

\* KeyShare::num_parties.
KeyShare_num_parties(self) == Len(self.public)

\* KeyShare::party_index.
KeyShare_party_index(self) == self.index

\* The variables of the protocol run, at rest while another part of the model runs.
RunAtRest ==
    /\ stage = "none"
    /\ num_parties = 0
    /\ key_shares = << >>
    /\ message = 0
    /\ rng = << >>
    /\ rounds = << >>
    /\ results = << >>
    /\ tamper = NoTamper

InitKeyShare ==
    /\ RunAtRest
    /\ machine = Idle
    /\ power = Idle
    /\ kr_session = NoSession
    /\ sigma = Idle
    /\ hasher = Idle
    /\ bounded = Idle
    /\ \/ \E self \in KeyShareValues("share") :
            ks_update = [stage |-> "share", input |-> self]
       \/ \E seed \in KeyShareSeedValues :
            ks_update = [stage |-> "seed", input |-> seed]

KeyShareUpdate ==
    /\ ks_update.stage = "share"
    /\ \E change \in KeyShareValues("change") :
          ks_update' = [stage |-> "updated", input |-> ks_update.input, change |-> change,
                        output |-> KeyShare_update(ks_update.input, change)]
    /\ UNCHANGED <<stage, num_parties, key_shares, message, rng, rounds, results, tamper,
                   kr_session,
                   sigma, hasher, bounded, machine, power>>

KeyShareNew ==
    /\ ks_update.stage = "seed"
    /\ \E change \in KeyShareValues("change") :
          ks_update' = [stage |-> "created", input |-> ks_update.input, change |-> change,
                        output |-> KeyShare_new(ks_update.input, change)]
    /\ UNCHANGED <<stage, num_parties, key_shares, message, rng, rounds, results, tamper,
                   kr_session,
                   sigma, hasher, bounded, machine, power>>

NextKeyShare ==
    \/ KeyShareUpdate
    \/ KeyShareNew

SpecKeyShare == InitKeyShare /\ [][NextKeyShare]_vars

----
\* Key refresh as the misbehaviour tests run it: one party sends what a test's Override
\* makes of its messages, the others follow the protocol.  A session ends with the
\* first round in which a party reports evidence.

PRIME_BITS == 512

\* BTreeMap::pop_first: the map without its smallest key.
pop_first(map) ==
    IF DOMAIN map = {} THEN map
    ELSE LET first == CHOOSE k \in DOMAIN map : \A o \in DOMAIN map : k <= o
         IN  [k \in DOMAIN map \ {first} |-> map[k]]

\* A hash, held as the domain separation tag and the sequence absorbed.
Hasher_new_with_dst(dst) == [dst |-> dst, absorbed |-> << >>]

\* PublicData::hash(sid, id): V = H(sid, id, public data).
PublicData_hash(data, sid, id) == [dst |-> "KeyRefresh", absorbed |-> <<sid, id, data>>]

\* The share changes x^i_j of party id: random, summing to zero.
ShareChanges(seed, ids) ==
    LET last == CHOOSE k \in ids : \A o \in ids : o <= k
        drawn == [j \in ids \ {last} |-> random_scalar(seed, j)]
    IN  [j \in ids |->
            IF j = last THEN ScalarNeg(ScalarSum(drawn, ids \ {last})) ELSE drawn[j]]

\* Round 1: what party id samples, and the public data it commits to.
KeyRefreshRound1_new(seed, id, ids) ==
    LET xs == ShareChanges(seed, ids)
        ys == [j \in ids |-> random_scalar(seed, Cardinality(ids) + j)]
        rp_params == [modulus_bits |-> 2 * PRIME_BITS, owner |-> id]
    IN  [context |-> [sid |-> "sid", my_id |-> id, ids |-> ids, xs |-> xs, ys |-> ys],
         public_data |->
            [cap_xs |-> [j \in ids |-> mul_by_generator(xs[j])],
             cap_ys |-> [j \in ids |-> mul_by_generator(ys[j])],
             cap_as |-> [j \in ids |-> <<"A", id, j>>],
             paillier_pk |-> [modulus_bits |-> 2 * PRIME_BITS, owner |-> id],
             rp_params |-> rp_params,
             psi |-> [rp_params |-> rp_params]]]

KeyRefreshRound1_make_echo_broadcast(round) ==
    [cap_v |-> PublicData_hash(round.public_data, round.context.sid, round.context.my_id)]

KeyRefreshRound2_make_echo_broadcast(round) ==
    [cap_ys |-> round.public_data.cap_ys, rp_params |-> round.public_data.rp_params]

KeyRefreshRound2_make_normal_broadcast(round) ==
    [cap_xs |-> round.public_data.cap_xs,
     cap_as |-> round.public_data.cap_as,
     paillier_pk |-> round.public_data.paillier_pk,
     psi |-> round.public_data.psi]

\* Round 2: the checks a receiver makes of the data `from` opens, in order; the
\* description of the first that fails, "ok" when none does.  The descriptions are
\* spelled as the tests match them ("ring-Pedersent" in r2_rp_modulus_too_small; the
\* Cyrillic capital Pe of the proof names is written P, without the backquotes).
KeyRefreshRound2_receive_message(round, from, cap_v, echo_broadcast, normal_broadcast) ==
    LET ids == round.context.ids
        data == [cap_xs |-> normal_broadcast.cap_xs,
                 cap_ys |-> echo_broadcast.cap_ys,
                 cap_as |-> normal_broadcast.cap_as,
                 paillier_pk |-> normal_broadcast.paillier_pk,
                 rp_params |-> echo_broadcast.rp_params,
                 psi |-> normal_broadcast.psi]
    IN  IF PublicData_hash(data, round.context.sid, from) # cap_v
        THEN "Round 2: the previously sent hash does not match the public data."
        ELSE IF DOMAIN data.cap_xs # ids
        THEN "Round 2: wrong IDs in public shares map."
        ELSE IF DOMAIN data.cap_ys # ids
        THEN "Round 2: wrong IDs in Elgamal keys map."
        ELSE IF DOMAIN data.cap_as # ids
        THEN "Round 2: wrong IDs in Schnorr commitments map."
        ELSE IF PointSum(data.cap_xs, ids) # IDENTITY
        THEN "Round 2: sum of share changes is not zero."
        ELSE IF data.paillier_pk.modulus_bits < 2 * PRIME_BITS
        THEN "Round 2: Paillier modulus is too small."
        ELSE IF data.rp_params.modulus_bits < 2 * PRIME_BITS
        THEN "Round 2: ring-Pedersent modulus is too small."
        ELSE IF data.psi.rp_params # data.rp_params
        THEN "Round 2: P^{prm} verification failed."
        ELSE "ok"

\* Round 3: the Schnorr proofs hat_psi_j of the share changes, one for each id.
KeyRefreshRound3_make_echo_broadcast(round) ==
    [hat_psis |-> [j \in round.context.ids |->
                     [cap_x |-> round.public_data.cap_xs[j],
                      commitment |-> round.public_data.cap_as[j]]]]

\* Round 3: the mod proof psi' of the sender's Paillier modulus.
KeyRefreshRound3_make_normal_broadcast(round) ==
    [psi_prime |-> [paillier_pk |-> round.public_data.paillier_pk]]

\* Round 3: the share change for `destination`, masked with the Elgamal secret the two
\* parties share (cap_y is the key `destination` published for the sender), and the
\* fac proof against the ring-Pedersen setup of `destination`.
KeyRefreshRound3_make_direct_message(round, destination, cap_y, rp_params) ==
    [cap_c |-> ScalarAdd(round.context.xs[destination],
                         PointMul(cap_y, round.context.ys[destination])),
     psi |-> [paillier_pk |-> round.public_data.paillier_pk, rp_params |-> rp_params]]

\* Round 3: the checks a receiver makes of the messages of `from`, whose public data
\* opened in Round 2 is `data`; the description of the first that fails.
KeyRefreshRound3_receive_message(round, from, data, echo_broadcast, normal_broadcast, direct_message) ==
    LET ids == round.context.ids
        my_id == round.context.my_id
        x == ScalarAdd(direct_message.cap_c,
                       ScalarNeg(PointMul(data.cap_ys[my_id], round.context.ys[from])))
    IN  IF mul_by_generator(x) # data.cap_xs[my_id]
        THEN "Round 3: secret share change does not match the public commitment."
        ELSE IF normal_broadcast.psi_prime.paillier_pk # data.paillier_pk
        THEN "Round 3: P^{mod} verification failed."
        ELSE IF direct_message.psi # [paillier_pk |-> data.paillier_pk,
                                      rp_params |-> round.public_data.rp_params]
        THEN "Round 3: P^{fac} verification failed."
        ELSE IF DOMAIN echo_broadcast.hat_psis # ids
        THEN "Round 3: Wrong IDs in Schnorr proofs map."
        ELSE IF \E j \in ids : echo_broadcast.hat_psis[j] #
                                   [cap_x |-> data.cap_xs[j], commitment |-> data.cap_as[j]]
        THEN "Round 3: P^{sch} verification failed."
        ELSE "ok"

\* The description of the evidence of a protocol error, as the tests read it.
EvidenceDescription(error) == <<"Protocol error", error>>

\* CheckPart: the parts of a round's message.
MessageParts == {"echo_broadcast", "normal_broadcast", "direct_message"}

\* Variant of ExpectedParts in which every round takes every part.
ExpectedParts_all(round_id) == MessageParts

\* The parts each round's message has: Round1EchoBroadcast; Round2EchoBroadcast and
\* Round2NormalBroadcast; Round3EchoBroadcast, Round3NormalBroadcast and
\* Round3DirectMessage.
ExpectedParts(round_id) ==
    CASE round_id = 1 -> {"echo_broadcast"}
      [] round_id = 2 -> {"echo_broadcast", "normal_broadcast"}
      [] round_id = 3 -> {"echo_broadcast", "normal_broadcast", "direct_message"}

\* What a receiver makes of the parts of a message before it reads them: a part is
\* "none", a "message" of the round's type or "invalid" bytes.  A part the round
\* expects has to parse and a part it does not expect has to be absent; the first
\* part that fails is named, "ok" when none does.
verify_parts(round_id, parts) ==
    LET bad(p) == IF p \in ExpectedParts(round_id)
                  THEN parts[p] # "message"
                  ELSE parts[p] # "none"
    IN  IF bad("echo_broadcast") THEN "echo_broadcast"
        ELSE IF bad("normal_broadcast") THEN "normal_broadcast"
        ELSE IF bad("direct_message") THEN "direct_message"
        ELSE "ok"

\* The description of the evidence of a part that is invalid.
InvalidMessageDescription(part) == <<"Invalid message", part>>

\* Variant of the r2_hash_mismatch override that leaves the Round 1 hash as it is.
r2_hash_mismatch_passing_on(round_id, round, echo_broadcast) == echo_broadcast

\* r2_hash_mismatch: Override::modify_echo_broadcast.
r2_hash_mismatch_modify_echo_broadcast(round_id, round, echo_broadcast) ==
    IF round_id = 1
    THEN [cap_v |-> Hasher_new_with_dst("bad hash")]
    ELSE echo_broadcast

\* r2_wrong_ids_x: Override::modify_normal_broadcast.
r2_wrong_ids_x_modify_normal_broadcast(round_id, round, normal_broadcast) ==
    IF round_id = 2
    THEN [normal_broadcast EXCEPT !.cap_xs = pop_first(@)]
    ELSE normal_broadcast

\* Variant of the r2_wrong_ids_x override that does not adjust the Round 1 hash.
r2_wrong_ids_x_unadjusted_hash(round_id, round, echo_broadcast) == echo_broadcast

\* r2_wrong_ids_x: Override::modify_echo_broadcast.
r2_wrong_ids_x_modify_echo_broadcast(round_id, round, echo_broadcast) ==
    IF round_id = 1
    THEN LET data == [round.public_data EXCEPT !.cap_xs = pop_first(@)]
         IN  [cap_v |-> PublicData_hash(data, round.context.sid, round.context.my_id)]
    ELSE echo_broadcast

\* r2_wrong_ids_y: Override::modify_echo_broadcast.
r2_wrong_ids_y_modify_echo_broadcast(round_id, round, echo_broadcast) ==
    IF round_id = 1
    THEN LET data == [round.public_data EXCEPT !.cap_ys = pop_first(@)]
         IN  [cap_v |-> PublicData_hash(data, round.context.sid, round.context.my_id)]
    ELSE IF round_id = 2
    THEN [echo_broadcast EXCEPT !.cap_ys = pop_first(@)]
    ELSE echo_broadcast

\* r2_wrong_ids_a: Override::modify_normal_broadcast.
r2_wrong_ids_a_modify_normal_broadcast(round_id, round, normal_broadcast) ==
    IF round_id = 2
    THEN [normal_broadcast EXCEPT !.cap_as = pop_first(@)]
    ELSE normal_broadcast

\* r2_wrong_ids_a: Override::modify_echo_broadcast.
r2_wrong_ids_a_modify_echo_broadcast(round_id, round, echo_broadcast) ==
    IF round_id = 1
    THEN LET data == [round.public_data EXCEPT !.cap_as = pop_first(@)]
         IN  [cap_v |-> PublicData_hash(data, round.context.sid, round.context.my_id)]
    ELSE echo_broadcast

\* The seed of the tests' own generator, ChaCha8Rng::seed_from_u64(123).
TEST_RNG_SEED == 123

\* r2_paillier_modulus_too_small: make_small_modulus_pk, a key of two primes of half
\* the size; it belongs to no party (owner -1).
make_small_modulus_pk == [modulus_bits |-> PRIME_BITS, owner |-> -1]

\* r2_paillier_modulus_too_small: Override::modify_normal_broadcast.
r2_paillier_modulus_too_small_modify_normal_broadcast(round_id, round, normal_broadcast) ==
    IF round_id = 2
    THEN [normal_broadcast EXCEPT !.paillier_pk = make_small_modulus_pk]
    ELSE normal_broadcast

\* Variant of the r2_paillier_modulus_too_small override that does not adjust the
\* Round 1 hash.
r2_paillier_modulus_too_small_unadjusted_hash(round_id, round, echo_broadcast) == echo_broadcast

\* r2_paillier_modulus_too_small: Override::modify_echo_broadcast.
r2_paillier_modulus_too_small_modify_echo_broadcast(round_id, round, echo_broadcast) ==
    IF round_id = 1
    THEN LET data == [round.public_data EXCEPT !.paillier_pk = make_small_modulus_pk]
         IN  [cap_v |-> PublicData_hash(data, round.context.sid, round.context.my_id)]
    ELSE echo_broadcast

\* r2_rp_modulus_too_small: make_small_modulus_rp_params.
make_small_modulus_rp_params == [modulus_bits |-> PRIME_BITS, owner |-> -1]

\* r2_rp_modulus_too_small: Override::modify_echo_broadcast.
r2_rp_modulus_too_small_modify_echo_broadcast(round_id, round, echo_broadcast) ==
    IF round_id = 1
    THEN LET data == [round.public_data EXCEPT !.rp_params = make_small_modulus_rp_params]
         IN  [cap_v |-> PublicData_hash(data, round.context.sid, round.context.my_id)]
    ELSE IF round_id = 2
    THEN [echo_broadcast EXCEPT !.rp_params = make_small_modulus_rp_params]
    ELSE echo_broadcast

\* r2_non_zero_sum_of_changes: the first entry of the map X replaced by a point drawn
\* from the test's generator.
replace_first_cap_x(cap_xs) ==
    LET id == CHOOSE k \in DOMAIN cap_xs : \A o \in DOMAIN cap_xs : k <= o
    IN  [cap_xs EXCEPT ![id] = mul_by_generator(random_scalar(TEST_RNG_SEED, 0))]

\* r2_non_zero_sum_of_changes: Override::modify_normal_broadcast.
r2_non_zero_sum_of_changes_modify_normal_broadcast(round_id, round, normal_broadcast) ==
    IF round_id = 2
    THEN [normal_broadcast EXCEPT !.cap_xs = replace_first_cap_x(@)]
    ELSE normal_broadcast

\* Variant of the r2_non_zero_sum_of_changes override that does not adjust the Round 1
\* hash.
r2_non_zero_sum_of_changes_unadjusted_hash(round_id, round, echo_broadcast) == echo_broadcast

\* r2_non_zero_sum_of_changes: Override::modify_echo_broadcast.
r2_non_zero_sum_of_changes_modify_echo_broadcast(round_id, round, echo_broadcast) ==
    IF round_id = 1
    THEN LET data == [round.public_data EXCEPT !.cap_xs = replace_first_cap_x(@)]
         IN  [cap_v |-> PublicData_hash(data, round.context.sid, round.context.my_id)]
    ELSE echo_broadcast

\* A Paillier key or ring-Pedersen setup of full size that the Override generates and
\* that belongs to no party (owner -1).
unrelated_key == [modulus_bits |-> 2 * PRIME_BITS, owner |-> -1]

\* r2_prm_failed: Override::modify_echo_broadcast.
r2_prm_failed_modify_echo_broadcast(round_id, round, echo_broadcast) ==
    IF round_id = 1
    THEN LET data == [round.public_data EXCEPT !.psi = [rp_params |-> unrelated_key]]
         IN  [cap_v |-> PublicData_hash(data, round.context.sid, round.context.my_id)]
    ELSE echo_broadcast

\* r2_prm_failed: Override::modify_normal_broadcast.
r2_prm_failed_modify_normal_broadcast(round_id, round, normal_broadcast) ==
    IF round_id = 2
    THEN [normal_broadcast EXCEPT !.psi = [rp_params |-> unrelated_key]]
    ELSE normal_broadcast

\* Variant of the r3_share_change_mismatch override that passes the message on.
r3_share_change_mismatch_passing_on(rng_seed, round_id, destination, direct_message) ==
    direct_message

\* r3_share_change_mismatch: Override::modify_direct_message.
r3_share_change_mismatch_modify_direct_message(rng_seed, round_id, destination, direct_message) ==
    IF round_id = 3
    THEN [direct_message EXCEPT !.cap_c = random_scalar(rng_seed, destination)]
    ELSE direct_message

\* Variant of the r3_mod_failed override that passes the message on.
r3_mod_failed_passing_on(round_id, round, normal_broadcast) == normal_broadcast

\* r3_mod_failed: Override::modify_normal_broadcast.
r3_mod_failed_modify_normal_broadcast(round_id, round, normal_broadcast) ==
    IF round_id = 3
    THEN [normal_broadcast EXCEPT !.psi_prime = [paillier_pk |-> unrelated_key]]
    ELSE normal_broadcast

\* r3_fac_failed: Override::modify_direct_message.
r3_fac_failed_modify_direct_message(rng_seed, round_id, destination, direct_message) ==
    IF round_id = 3
    THEN [direct_message EXCEPT
             !.psi = [paillier_pk |-> unrelated_key, rp_params |-> unrelated_key]]
    ELSE direct_message

\* r3_wrong_ids_hat_psi: Override::modify_echo_broadcast.
r3_wrong_ids_hat_psi_modify_echo_broadcast(round_id, round, echo_broadcast) ==
    IF round_id = 3
    THEN [echo_broadcast EXCEPT !.hat_psis = pop_first(@)]
    ELSE echo_broadcast

\* r3_sch_failed: Override::modify_echo_broadcast; the last proof is replaced by one
\* of a secret and a commitment drawn by the Override.
r3_sch_failed_modify_echo_broadcast(rng_seed, round_id, round, echo_broadcast) ==
    IF round_id = 3
    THEN LET hat_psis == echo_broadcast.hat_psis
             id == CHOOSE k \in DOMAIN hat_psis : \A o \in DOMAIN hat_psis : o <= k
         IN  [echo_broadcast EXCEPT
                 !.hat_psis[id] = [cap_x |-> mul_by_generator(random_scalar(rng_seed, 0)),
                                   commitment |-> <<"A", -1, rng_seed>>]]
    ELSE echo_broadcast

\* invalid_messages: the calls of check_invalid_message_evidence, each a round, a part
\* and whether the round expects the part.
InvalidMessageChecks ==
    {[round |-> 1, part |-> "echo_broadcast", expecting |-> TRUE],
     [round |-> 2, part |-> "echo_broadcast", expecting |-> TRUE],
     [round |-> 3, part |-> "echo_broadcast", expecting |-> TRUE],
     [round |-> 1, part |-> "normal_broadcast", expecting |-> FALSE],
     [round |-> 2, part |-> "normal_broadcast", expecting |-> TRUE],
     [round |-> 3, part |-> "normal_broadcast", expecting |-> TRUE],
     [round |-> 1, part |-> "direct_message", expecting |-> FALSE],
     [round |-> 2, part |-> "direct_message", expecting |-> FALSE],
     [round |-> 3, part |-> "direct_message", expecting |-> TRUE]}

NoCheck == [round |-> 0, part |-> "none", expecting |-> FALSE]

\* check_invalid_message_evidence: in the round of `check` the part is replaced by
\* bytes that do not parse when the round expects it, by a message when it does not.
invalid_message_parts(check, round_id, parts) ==
    IF round_id = check.round
    THEN [parts EXCEPT ![check.part] = IF check.expecting THEN "invalid" ELSE "message"]
    ELSE parts

\* The tests' overrides; "honest" is a run without one.
Behaviors ==
    {"honest", "r2_hash_mismatch", "r2_wrong_ids_x", "r2_wrong_ids_y", "r2_wrong_ids_a",
     "r2_paillier_modulus_too_small", "r2_rp_modulus_too_small",
     "r2_non_zero_sum_of_changes", "r2_prm_failed", "r3_share_change_mismatch",
     "r3_mod_failed", "r3_fac_failed", "r3_wrong_ids_hat_psi", "r3_sch_failed",
     "invalid_messages"}

\* The Round 2 overrides that adjust the hash of Round 1 to the data they open. A
\* sender of the behavior "uncommitted" opens the data of one of them in Round 2 after
\* sending the hash of its own data in Round 1.
HashAdjustingOverrides ==
    {"r2_wrong_ids_x", "r2_wrong_ids_y", "r2_wrong_ids_a", "r2_paillier_modulus_too_small",
     "r2_rp_modulus_too_small", "r2_non_zero_sum_of_changes", "r2_prm_failed"}

\* Misbehaving::modify_echo_broadcast of the test `behavior`; a test that does not
\* override it passes the message on.
modify_echo_broadcast(rng_seed, behavior, round_id, round, echo_broadcast) ==
    CASE behavior = "r2_hash_mismatch" ->
            r2_hash_mismatch_modify_echo_broadcast(round_id, round, echo_broadcast)
      [] behavior = "r2_wrong_ids_x" ->
            r2_wrong_ids_x_modify_echo_broadcast(round_id, round, echo_broadcast)
      [] behavior = "r2_wrong_ids_y" ->
            r2_wrong_ids_y_modify_echo_broadcast(round_id, round, echo_broadcast)
      [] behavior = "r2_wrong_ids_a" ->
            r2_wrong_ids_a_modify_echo_broadcast(round_id, round, echo_broadcast)
      [] behavior = "r2_paillier_modulus_too_small" ->
            r2_paillier_modulus_too_small_modify_echo_broadcast(round_id, round,
                                                                echo_broadcast)
      [] behavior = "r2_rp_modulus_too_small" ->
            r2_rp_modulus_too_small_modify_echo_broadcast(round_id, round, echo_broadcast)
      [] behavior = "r2_non_zero_sum_of_changes" ->
            r2_non_zero_sum_of_changes_modify_echo_broadcast(round_id, round,
                                                             echo_broadcast)
      [] behavior = "r2_prm_failed" ->
            r2_prm_failed_modify_echo_broadcast(round_id, round, echo_broadcast)
      [] behavior = "r3_wrong_ids_hat_psi" ->
            r3_wrong_ids_hat_psi_modify_echo_broadcast(round_id, round, echo_broadcast)
      [] behavior = "r3_sch_failed" ->
            r3_sch_failed_modify_echo_broadcast(rng_seed, round_id, round, echo_broadcast)
      [] OTHER -> echo_broadcast

\* Misbehaving::modify_normal_broadcast of the test `behavior`.
modify_normal_broadcast(behavior, round_id, round, normal_broadcast) ==
    CASE behavior = "r2_wrong_ids_x" ->
            r2_wrong_ids_x_modify_normal_broadcast(round_id, round, normal_broadcast)
      [] behavior = "r2_wrong_ids_a" ->
            r2_wrong_ids_a_modify_normal_broadcast(round_id, round, normal_broadcast)
      [] behavior = "r2_paillier_modulus_too_small" ->
            r2_paillier_modulus_too_small_modify_normal_broadcast(round_id, round,
                                                                  normal_broadcast)
      [] behavior = "r2_non_zero_sum_of_changes" ->
            r2_non_zero_sum_of_changes_modify_normal_broadcast(round_id, round,
                                                               normal_broadcast)
      [] behavior = "r2_prm_failed" ->
            r2_prm_failed_modify_normal_broadcast(round_id, round, normal_broadcast)
      [] behavior = "r3_mod_failed" ->
            r3_mod_failed_modify_normal_broadcast(round_id, round, normal_broadcast)
      [] OTHER -> normal_broadcast

\* Misbehaving::modify_direct_message of the test `behavior`.
modify_direct_message(rng_seed, behavior, round_id, destination, direct_message) ==
    CASE behavior = "r3_share_change_mismatch" ->
            r3_share_change_mismatch_modify_direct_message(rng_seed, round_id, destination,
                                                           direct_message)
      [] behavior = "r3_fac_failed" ->
            r3_fac_failed_modify_direct_message(rng_seed, round_id, destination,
                                                direct_message)
      [] OTHER -> direct_message

\* The expected description each test hands to check_evidence.
ExpectedDescription(behavior) ==
    CASE behavior = "r2_hash_mismatch" ->
            <<"Protocol error",
              "Round 2: the previously sent hash does not match the public data.">>
      [] behavior = "r2_wrong_ids_x" ->
            <<"Protocol error", "Round 2: wrong IDs in public shares map.">>
      [] behavior = "r2_wrong_ids_y" ->
            <<"Protocol error", "Round 2: wrong IDs in Elgamal keys map.">>
      [] behavior = "r2_wrong_ids_a" ->
            <<"Protocol error", "Round 2: wrong IDs in Schnorr commitments map.">>
      [] behavior = "r2_paillier_modulus_too_small" ->
            <<"Protocol error", "Round 2: Paillier modulus is too small.">>
      [] behavior = "r2_rp_modulus_too_small" ->
            <<"Protocol error", "Round 2: ring-Pedersent modulus is too small.">>
      [] behavior = "r2_non_zero_sum_of_changes" ->
            <<"Protocol error", "Round 2: sum of share changes is not zero.">>
      [] behavior = "r2_prm_failed" ->
            <<"Protocol error", "Round 2: P^{prm} verification failed.">>
      [] behavior = "r3_share_change_mismatch" ->
            <<"Protocol error",
              "Round 3: secret share change does not match the public commitment.">>
      [] behavior = "r3_mod_failed" ->
            <<"Protocol error", "Round 3: P^{mod} verification failed.">>
      [] behavior = "r3_fac_failed" ->
            <<"Protocol error", "Round 3: P^{fac} verification failed.">>
      [] behavior = "r3_wrong_ids_hat_psi" ->
            <<"Protocol error", "Round 3: Wrong IDs in Schnorr proofs map.">>
      [] behavior = "r3_sch_failed" ->
            <<"Protocol error", "Round 3: P^{sch} verification failed.">>
      [] OTHER -> <<"no error">>

\* check_evidence: the misbehaving party's report is empty and every other party's
\* report is one piece of evidence, against the misbehaving party, with the expected
\* description.
check_evidence(session, expected_description) ==
    /\ session.reports[session.misbehaving] = {}
    /\ \A id \in session.ids \ {session.misbehaving} :
          session.reports[id] =
              {[party |-> session.misbehaving, description |-> expected_description]}

\* What `id` sends: its message, through the Override when it is the misbehaving party.
SentEcho(session, round_id, id, echo_broadcast) ==
    IF id = session.misbehaving /\ ~(session.behavior = "uncommitted" /\ round_id = 1)
    THEN modify_echo_broadcast(session.rng_seed, session.opens, round_id,
                               session.rounds[id], echo_broadcast)
    ELSE echo_broadcast

SentNormal(session, round_id, id, normal_broadcast) ==
    IF id = session.misbehaving
    THEN modify_normal_broadcast(session.opens, round_id, session.rounds[id],
                                 normal_broadcast)
    ELSE normal_broadcast

\* The Override changes the direct messages to the destinations in session.targets
\* (the tests' Overrides change them all).
SentDirect(session, round_id, id, destination, direct_message) ==
    IF id = session.misbehaving /\ destination \in session.targets
    THEN modify_direct_message(session.rng_seed, session.behavior, round_id, destination,
                               direct_message)
    ELSE direct_message

\* The parts of the message `id` sends in a round.
SentParts(session, round_id, id) ==
    LET parts == [p \in MessageParts |->
                    IF p \in ExpectedParts(round_id) THEN "message" ELSE "none"]
    IN  IF id = session.misbehaving /\ session.behavior = "invalid_messages"
        THEN invalid_message_parts(session.check, round_id, parts)
        ELSE parts

\* The public data `from` opens in Round 2.
Round2Data(session, from) ==
    LET echo == SentEcho(session, 2, from,
                         KeyRefreshRound2_make_echo_broadcast(session.rounds[from]))
        normal == SentNormal(session, 2, from,
                             KeyRefreshRound2_make_normal_broadcast(session.rounds[from]))
    IN  [cap_xs |-> normal.cap_xs, cap_ys |-> echo.cap_ys, cap_as |-> normal.cap_as,
         paillier_pk |-> normal.paillier_pk, rp_params |-> echo.rp_params,
         psi |-> normal.psi]

\* What `id` makes of the message of `from` in a round: the description of the
\* evidence against `from`, <<"ok">> when the message passes.
ReceiveMessage(session, round_id, id, from) ==
    LET invalid == verify_parts(round_id, SentParts(session, round_id, from))
        data == Round2Data(session, from)
        error ==
            CASE round_id = 1 -> "ok"
              [] round_id = 2 ->
                    KeyRefreshRound2_receive_message(
                        session.rounds[id], from, session.cap_vs[from],
                        SentEcho(session, 2, from,
                                 KeyRefreshRound2_make_echo_broadcast(session.rounds[from])),
                        SentNormal(session, 2, from,
                                   KeyRefreshRound2_make_normal_broadcast(
                                       session.rounds[from])))
              [] round_id = 3 ->
                    KeyRefreshRound3_receive_message(
                        session.rounds[id], from, data,
                        SentEcho(session, 3, from,
                                 KeyRefreshRound3_make_echo_broadcast(session.rounds[from])),
                        SentNormal(session, 3, from,
                                   KeyRefreshRound3_make_normal_broadcast(
                                       session.rounds[from])),
                        SentDirect(session, 3, from, id,
                                   KeyRefreshRound3_make_direct_message(
                                       session.rounds[from], id,
                                       Round2Data(session, id).cap_ys[from],
                                       Round2Data(session, id).rp_params)))
    IN  IF invalid # "ok" THEN InvalidMessageDescription(invalid)
        ELSE IF error # "ok" THEN EvidenceDescription(error)
        ELSE <<"ok">>

\* The reports of a round: every party checks every other party's message and reports
\* the senders whose message fails.
RoundReports(session, round_id) ==
    [id \in session.ids |->
        {[party |-> from, description |-> ReceiveMessage(session, round_id, id, from)] :
            from \in {f \in session.ids \ {id} :
                         ReceiveMessage(session, round_id, id, f) # <<"ok">>}}]

\* The seeds of the generator handed to the Override, for the Overrides that draw from it.
OverrideSeeds(behavior) ==
    IF behavior \in {"r3_share_change_mismatch", "r3_sch_failed"}
    THEN 0 .. MaxSeed
    ELSE {0}

\* The destinations whose direct message the Override changes: all of them, as in the
\* tests, or one.
OverrideTargets(behavior, ids, misbehaving) ==
    IF behavior \in {"r3_share_change_mismatch", "r3_fac_failed"}
    THEN {ids \ {misbehaving}} \cup {{j} : j \in ids \ {misbehaving}}
    ELSE {ids \ {misbehaving}}

InitKeyRefresh ==
    /\ RunAtRest
    /\ machine = Idle
    /\ power = Idle
    /\ ks_update = NoUpdate
    /\ sigma = Idle
    /\ hasher = Idle
    /\ bounded = Idle
    /\ \E n \in 2 .. MaxParties :
       \E behavior \in Behaviors \cup {"uncommitted"} :
       \E opens \in IF behavior = "uncommitted" THEN HashAdjustingOverrides
                     ELSE {behavior} :
       \E misbehaving \in 0 .. (n - 1) :
       \E seeds \in [0 .. (n - 1) -> 0 .. MaxSeed] :
       \E rng_seed \in OverrideSeeds(behavior) :
       \E targets \in OverrideTargets(behavior, 0 .. (n - 1), misbehaving) :
       \E check \in IF behavior = "invalid_messages" THEN InvalidMessageChecks
                     ELSE {NoCheck} :
          kr_session = [stage |-> "round1",
                        round |-> 0,
                        ids |-> 0 .. (n - 1),
                        behavior |-> behavior,
                        opens |-> opens,
                        misbehaving |-> misbehaving,
                        rng_seed |-> rng_seed,
                        targets |-> targets,
                        check |-> check,
                        rounds |-> [id \in 0 .. (n - 1) |->
                                       KeyRefreshRound1_new(seeds[id], id, 0 .. (n - 1))],
                        cap_vs |-> << >>,
                        reports |-> [id \in 0 .. (n - 1) |-> {}]]

\* The stage after a round: the next round when no party reported evidence.
NextStage(reports, next_stage) ==
    IF \E id \in DOMAIN reports : reports[id] # {} THEN "done" ELSE next_stage

\* Round 1: the hashes are echo-broadcast; every party keeps what each sender sent.
KeyRefreshStepRound1 ==
    /\ kr_session.stage = "round1"
    /\ kr_session' =
          [kr_session EXCEPT
              !.stage = NextStage(RoundReports(kr_session, 1), "round2"),
              !.round = 1,
              !.cap_vs = [id \in kr_session.ids |->
                            SentEcho(kr_session, 1, id,
                                     KeyRefreshRound1_make_echo_broadcast(
                                         kr_session.rounds[id])).cap_v],
              !.reports = RoundReports(kr_session, 1)]
    /\ UNCHANGED <<stage, num_parties, key_shares, message, rng, rounds, results, tamper,
                   ks_update,
                   sigma, hasher, bounded, machine, power>>

\* Round 2: the public data is opened; every party checks every other party's data.
KeyRefreshStepRound2 ==
    /\ kr_session.stage = "round2"
    /\ kr_session' =
          [kr_session EXCEPT
              !.stage = NextStage(RoundReports(kr_session, 2), "round3"),
              !.round = 2,
              !.reports = RoundReports(kr_session, 2)]
    /\ UNCHANGED <<stage, num_parties, key_shares, message, rng, rounds, results, tamper,
                   ks_update,
                   sigma, hasher, bounded, machine, power>>

\* Round 3: the share changes and the proofs are sent; every party checks what it got.
KeyRefreshStepRound3 ==
    /\ kr_session.stage = "round3"
    /\ kr_session' =
          [kr_session EXCEPT
              !.stage = "done",
              !.round = 3,
              !.reports = RoundReports(kr_session, 3)]
    /\ UNCHANGED <<stage, num_parties, key_shares, message, rng, rounds, results, tamper,
                   ks_update,
                   sigma, hasher, bounded, machine, power>>

NextKeyRefresh ==
    \/ KeyRefreshStepRound1
    \/ KeyRefreshStepRound2
    \/ KeyRefreshStepRound3

SpecKeyRefresh == InitKeyRefresh /\ [][NextKeyRefresh]_vars

----
\* Sigma proofs (cggmp21::sigma): log* and dec.  A Paillier ciphertext is held here as
\* the residue it encrypts together with its randomizer; a randomizer is held as an
\* exponent modulo N, so that the product of randomizers is a sum.  A ring-Pedersen
\* commitment s^x t^y is held as its exponent of t.

\* The slack eps of the reference parametrization is twice l.
EPS_BOUND == 2 * L_BOUND

SECURITY_PARAMETER == 2

\* SecretSigned::random_in_exp_range(draws, exp): the draws from [-2^exp, 2^exp] that the
\* model follows, the two ends and their neighbours among them.
ExponentRangeSamples(exp) ==
    {0 - Pow2(exp), 1 - Pow2(exp), 0 - 1, 0, 1, Pow2(exp) - 1, Pow2(exp)}

\* PublicSigned::in_range_bits.
in_range_bits(v, bits) == Abs(v) <= Pow2(bits)

\* Randomizer::to_masked(coeff, exponent): coeff * rho^exponent.
Randomizer_to_masked(pk, rho, coeff, exponent) == (coeff + rho * exponent) % pk

\* RPParams::random: the modulus of safe primes 2p'+1, 2q'+1, the order p'q' of the
\* group generated by t, and the secret lambda with s = t^lambda.
RPParams_random(i, lambda) ==
    [modulus |-> PaillierModulus(i),
     order |-> ((PaillierPrimes[i + 1][1] - 1) \div 2) * ((PaillierPrimes[i + 1][2] - 1) \div 2),
     lambda |-> lambda]

\* RPParams::commit(secret, randomizer) = s^secret t^randomizer.
RPParams_commit(setup, secret, randomizer) ==
    (setup.lambda * secret + randomizer) % setup.order

\* XofHasher: the digest after the tag and the values chained, in their order.
RECURSIVE Absorb(_, _)
Absorb(digest, values) ==
    IF values = << >> THEN digest
    ELSE Absorb((digest * 31 + Head(values) + 1) % 1009, Tail(values))

xof_digest(tag, values) == Absorb(IF tag = "P_log*" THEN 1 ELSE 2, values)

\* PublicSigned::from_xof_reader_bounded: a value of magnitude below the bound.
from_xof_reader_bounded(digest, bound) == (digest % (2 * bound - 1)) - (bound - 1)

\* BitVec::from_xof_reader: n bits.
BitVec_from_xof_reader(digest, n) == [j \in 1 .. n |-> (digest \div Pow2(j - 1)) % 2 = 1]

\* Variant of the transcript of a log* proof that leaves aux out.
log_star_transcript_without_aux(cap_s, cap_a, cap_y, cap_d, pk0, cap_c, g, cap_x, setup, aux) ==
    <<cap_s, cap_a.plaintext, cap_a.randomizer, cap_y, cap_d,
      pk0, cap_c.plaintext, cap_c.randomizer, g, cap_x,
      setup.modulus, setup.lambda>>

\* The transcript of a log* proof: the commitments and the public parameters chained.
log_star_transcript(cap_s, cap_a, cap_y, cap_d, pk0, cap_c, g, cap_x, setup, aux) ==
    <<cap_s, cap_a.plaintext, cap_a.randomizer, cap_y, cap_d,
      pk0, cap_c.plaintext, cap_c.randomizer, g, cap_x,
      setup.modulus, setup.lambda, aux>>

\* The challenge read from a transcript: a signed value bounded by the curve order.
log_star_challenge_of(transcript) ==
    from_xof_reader_bounded(xof_digest("P_log*", transcript), CurveOrder)

\* The challenge of a log* proof.
log_star_challenge(cap_s, cap_a, cap_y, cap_d, pk0, cap_c, g, cap_x, setup, aux) ==
    log_star_challenge_of(
        log_star_transcript(cap_s, cap_a, cap_y, cap_d, pk0, cap_c, g, cap_x, setup, aux))

\* SecretSigned::assert_exponent_range(exp): the value lies in [-2^exp, 2^exp].
assert_exponent_range(v, exp) == Abs(v) <= Pow2(exp)

\* The assertions LogStarProof::new opens with: the panic of the first that fails.
log_star_LogStarProof_new_panic(x, pk0, cap_c) ==
    IF ~assert_exponent_range(x, L_BOUND)
    THEN [kind |-> "panic", error |-> "assert_exponent_range"]
    ELSE IF cap_c.pk # pk0
    THEN [kind |-> "panic", error |-> "assertion failed: cap_c.public_key() == pk0"]
    ELSE [kind |-> "none"]

\* The assertion LogStarProof::verify opens with.
log_star_LogStarProof_verify_panic(pk0, cap_c) ==
    IF cap_c.pk # pk0
    THEN [kind |-> "panic", error |-> "assertion failed: cap_c.public_key() == pk0"]
    ELSE [kind |-> "none"]

\* Variant of LogStarProof::new whose response z1 leaves the mask alpha out.
log_star_LogStarProof_new_unmasked(draws, x, rho, pk0, cap_c, g, cap_x, setup, aux) ==
    LET cap_s == RPParams_commit(setup, x, draws.mu)
        cap_a == Ciphertext_new_with_randomizer(pk0, draws.alpha, draws.r)
        cap_y == PointMul(g, to_scalar(draws.alpha))
        cap_d == RPParams_commit(setup, draws.alpha, draws.gamma)
        e == log_star_challenge(cap_s, cap_a, cap_y, cap_d, pk0, cap_c, g, cap_x, setup, aux)
    IN  IF log_star_LogStarProof_new_panic(x, pk0, cap_c).kind = "panic"
        THEN log_star_LogStarProof_new_panic(x, pk0, cap_c)
        ELSE [e |-> e, cap_s |-> cap_s, cap_a |-> cap_a, cap_y |-> cap_y, cap_d |-> cap_d,
              z1 |-> x * e,
              z2 |-> Randomizer_to_masked(pk0, rho, draws.r, e),
              z3 |-> draws.gamma + draws.mu * e]

\* LogStarProof::new; draws holds the draws alpha, mu, r, gamma.
log_star_LogStarProof_new(draws, x, rho, pk0, cap_c, g, cap_x, setup, aux) ==
    LET cap_s == RPParams_commit(setup, x, draws.mu)
        cap_a == Ciphertext_new_with_randomizer(pk0, draws.alpha, draws.r)
        cap_y == PointMul(g, to_scalar(draws.alpha))
        cap_d == RPParams_commit(setup, draws.alpha, draws.gamma)
        e == log_star_challenge(cap_s, cap_a, cap_y, cap_d, pk0, cap_c, g, cap_x, setup, aux)
    IN  IF log_star_LogStarProof_new_panic(x, pk0, cap_c).kind = "panic"
        THEN log_star_LogStarProof_new_panic(x, pk0, cap_c)
        ELSE [e |-> e, cap_s |-> cap_s, cap_a |-> cap_a, cap_y |-> cap_y, cap_d |-> cap_d,
              z1 |-> draws.alpha + x * e,
              z2 |-> Randomizer_to_masked(pk0, rho, draws.r, e),
              z3 |-> draws.gamma + draws.mu * e]

\* Variant of LogStarProof::verify without the range check of z1.
log_star_LogStarProof_verify_unranged(proof, pk0, cap_c, g, cap_x, setup, aux) ==
    LET e == log_star_challenge(proof.cap_s, proof.cap_a, proof.cap_y, proof.cap_d,
                                pk0, cap_c, g, cap_x, setup, aux)
    IN  IF log_star_LogStarProof_verify_panic(pk0, cap_c).kind = "panic"
        THEN log_star_LogStarProof_verify_panic(pk0, cap_c)
        ELSE IF e # proof.e THEN FALSE
        ELSE IF Ciphertext_new_with_randomizer(pk0, proof.z1, proof.z2)
                  # Ciphertext_add(Rekeyed(proof.cap_a, pk0), Ciphertext_mul(cap_c, e))
        THEN FALSE
        ELSE IF PointMul(g, to_scalar(proof.z1))
                  # PointAdd(proof.cap_y, PointMul(cap_x, to_scalar(e)))
        THEN FALSE
        ELSE IF RPParams_commit(setup, proof.z1, proof.z3)
                  # (proof.cap_d + proof.cap_s * e) % setup.order
        THEN FALSE
        ELSE TRUE

\* LogStarProof::verify.
log_star_LogStarProof_verify(proof, pk0, cap_c, g, cap_x, setup, aux) ==
    LET e == log_star_challenge(proof.cap_s, proof.cap_a, proof.cap_y, proof.cap_d,
                                pk0, cap_c, g, cap_x, setup, aux)
    IN  IF log_star_LogStarProof_verify_panic(pk0, cap_c).kind = "panic"
        THEN log_star_LogStarProof_verify_panic(pk0, cap_c)
        ELSE IF e # proof.e THEN FALSE
        \* Range check
        ELSE IF ~in_range_bits(proof.z1, L_BOUND + EPS_BOUND) THEN FALSE
        \* enc_0(z1, z2) == A (+) C (*) e
        ELSE IF Ciphertext_new_with_randomizer(pk0, proof.z1, proof.z2)
                  # Ciphertext_add(Rekeyed(proof.cap_a, pk0), Ciphertext_mul(cap_c, e))
        THEN FALSE
        \* g^{z_1} == Y X^e
        ELSE IF PointMul(g, to_scalar(proof.z1))
                  # PointAdd(proof.cap_y, PointMul(cap_x, to_scalar(e)))
        THEN FALSE
        \* s^{z_1} t^{z_3} == D S^e \mod \hat{N}
        ELSE IF RPParams_commit(setup, proof.z1, proof.z3)
                  # (proof.cap_d + proof.cap_s * e) % setup.order
        THEN FALSE
        ELSE TRUE

\* The challenge of a dec proof: SECURITY_PARAMETER bits.
dec_challenge(commitments, public, setup, aux) ==
    LET chained(j) == <<commitments[j].cap_a.plaintext, commitments[j].cap_a.randomizer,
                        commitments[j].cap_b, commitments[j].cap_c>>
        RECURSIVE all(_)
        all(j) == IF j > Len(commitments) THEN << >> ELSE chained(j) \o all(j + 1)
    IN  BitVec_from_xof_reader(
            xof_digest("P_dec",
                       all(1) \o <<public.pk0, public.cap_k.plaintext,
                                   public.cap_k.randomizer, public.cap_x,
                                   public.cap_d.plaintext, public.cap_d.randomizer,
                                   public.cap_s, setup.modulus, setup.lambda, aux>>),
            SECURITY_PARAMETER)

\* The assertions DecProof::new opens with: the panic of the first that fails.
dec_new_DecProof_new_panic(secret, public) ==
    IF ~assert_exponent_range(secret.x, L_BOUND) \/ ~assert_exponent_range(secret.y, LP_BOUND)
    THEN [kind |-> "panic", error |-> "assert_exponent_range"]
    ELSE IF public.cap_k.pk # public.pk0
    THEN [kind |-> "panic", error |-> "assertion failed: cap_k.public_key() == pk0"]
    ELSE IF public.cap_d.pk # public.pk0
    THEN [kind |-> "panic", error |-> "assertion failed: cap_d.public_key() == pk0"]
    ELSE [kind |-> "none"]

\* DecProof::new; draws[j] holds the draws alpha, beta, r of the j-th repetition.
dec_new_DecProof_new(draws, secret, public, setup, aux) ==
    LET commitments ==
            [j \in 1 .. SECURITY_PARAMETER |->
                [cap_a |-> Ciphertext_add(
                               Ciphertext_mul(public.cap_k, 0 - draws[j].alpha),
                               Ciphertext_new_with_randomizer(public.pk0, draws[j].beta,
                                                              draws[j].r)),
                 cap_b |-> mul_by_generator(to_scalar(draws[j].beta)),
                 cap_c |-> mul_by_generator(to_scalar(draws[j].alpha))]]
        e == dec_challenge(commitments, public, setup, aux)
        elements ==
            [j \in 1 .. SECURITY_PARAMETER |->
                [z |-> IF e[j] THEN draws[j].alpha + secret.x ELSE draws[j].alpha,
                 w |-> IF e[j] THEN draws[j].beta + secret.y ELSE draws[j].beta,
                 nu |-> Randomizer_to_masked(public.pk0, secret.rho, draws[j].r,
                                             IF e[j] THEN 1 ELSE 0)]]
    IN  IF dec_new_DecProof_new_panic(secret, public).kind = "panic"
        THEN dec_new_DecProof_new_panic(secret, public)
        ELSE [e |-> e, commitments |-> commitments, elements |-> elements]

\* DecProof::verify, the checks of the j-th repetition.
dec_new_DecProof_verify_element(e_bit, commitment, element, public) ==
    /\ Ciphertext_add(Ciphertext_new_with_randomizer(public.pk0, element.w, element.nu),
                      Ciphertext_mul(public.cap_k, 0 - element.z))
          = IF e_bit THEN Ciphertext_add(Rekeyed(commitment.cap_a, public.pk0), public.cap_d)
            ELSE Rekeyed(commitment.cap_a, public.pk0)
    /\ mul_by_generator(to_scalar(element.z))
          = IF e_bit THEN PointAdd(commitment.cap_c, public.cap_x) ELSE commitment.cap_c
    /\ mul_by_generator(to_scalar(element.w))
          = IF e_bit THEN PointAdd(commitment.cap_b, public.cap_s) ELSE commitment.cap_b

\* DecProof::verify.
dec_new_DecProof_verify(proof, public, setup, aux) ==
    LET e == dec_challenge(proof.commitments, public, setup, aux)
    IN  IF e # proof.e THEN FALSE
        ELSE IF Len(e) # Len(proof.commitments) \/ Len(e) # Len(proof.elements) THEN FALSE
        ELSE \A j \in 1 .. Len(e) :
                dec_new_DecProof_verify_element(e[j], proof.commitments[j],
                                                proof.elements[j], public)

\* The public inputs of the tests prove_and_verify, made of the secret ones.
LogStarPublic(inputs) ==
    [pk0 |-> inputs.pk0,
     cap_c |-> Ciphertext_new_with_randomizer(inputs.pk0, inputs.x, inputs.rho),
     g |-> inputs.g,
     cap_x |-> PointMul(inputs.g, to_scalar(inputs.x))]

DecPublic(inputs) ==
    LET cap_k == Ciphertext_new_with_randomizer(inputs.pk0, inputs.k, 1)
    IN  [pk0 |-> inputs.pk0,
         cap_k |-> cap_k,
         cap_x |-> mul_by_generator(to_scalar(inputs.x)),
         cap_d |-> Ciphertext_add(
                       Ciphertext_new_with_randomizer(inputs.pk0, inputs.y, inputs.rho),
                       Ciphertext_mul(cap_k, 0 - inputs.x)),
         cap_s |-> mul_by_generator(to_scalar(inputs.y))]

\* The masks of a prover that does not keep to the range: just outside it.
OutOfRangeSamples(exp) == {0 - Pow2(exp) - 1, Pow2(exp) + 1}

InitSigma ==
    /\ RunAtRest
    /\ machine = Idle
    /\ power = Idle
    /\ ks_update = NoUpdate
    /\ kr_session = NoSession
    /\ hasher = Idle
    /\ bounded = Idle
    /\ \E x \in ExponentRangeSamples(L_BOUND) \cup OutOfRangeSamples(L_BOUND) :
       \E rho \in {1, 2} :
       \E aux \in {0, 5} :
          \/ \E g \in {GENERATOR, 3} :
                sigma = [stage |-> "inputs", kind |-> "log_star",
                         inputs |-> [x |-> x, y |-> 0, rho |-> rho, k |-> 0, g |-> g,
                                     pk0 |-> PaillierModulus(0),
                                     setup |-> RPParams_random(1, 3), aux |-> aux]]
          \/ \E y \in ExponentRangeSamples(LP_BOUND) :
                sigma = [stage |-> "inputs", kind |-> "dec",
                         inputs |-> [x |-> x, y |-> y, rho |-> rho, k |-> 100,
                                     g |-> GENERATOR, pk0 |-> PaillierModulus(0),
                                     setup |-> RPParams_random(1, 3), aux |-> aux]]

\* A log* proof made by LogStarProof::new with the draws alpha, mu, r, gamma.
LogStarProve(alphas, honest) ==
    /\ sigma.stage = "inputs"
    /\ sigma.kind = "log_star"
    /\ \E alpha \in alphas : \E mu \in {0, 1} : \E r \in {1, 3} : \E gamma \in {0, 2} :
          LET public == LogStarPublic(sigma.inputs)
              made == log_star_LogStarProof_new(
                          [alpha |-> alpha, mu |-> mu, r |-> r, gamma |-> gamma],
                          sigma.inputs.x, sigma.inputs.rho, public.pk0,
                          public.cap_c, public.g, public.cap_x,
                          sigma.inputs.setup, sigma.inputs.aux)
          IN  IF log_star_LogStarProof_new_panic(sigma.inputs.x, public.pk0,
                                                 public.cap_c).kind = "panic"
              THEN sigma' = [stage |-> "panicked", kind |-> sigma.kind,
                             inputs |-> sigma.inputs, honest |-> honest, panic |-> made]
              ELSE sigma' = [stage |-> "proved", kind |-> sigma.kind,
                             inputs |-> sigma.inputs, honest |-> honest, proof |-> made]
    /\ UNCHANGED <<stage, num_parties, key_shares, message, rng, rounds, results, tamper,
                   ks_update, kr_session, hasher, bounded, machine, power>>

LogStarNew == LogStarProve(ExponentRangeSamples(L_BOUND + EPS_BOUND), TRUE)

\* A prover that draws the mask alpha outside its range and then does as new does.
LogStarOutOfRange == LogStarProve(OutOfRangeSamples(L_BOUND + EPS_BOUND), FALSE)

LogStarVerify ==
    /\ sigma.stage = "proved"
    /\ sigma.kind = "log_star"
    /\ LET public == LogStarPublic(sigma.inputs)
       IN  sigma' = [stage |-> "verified", kind |-> sigma.kind, inputs |-> sigma.inputs,
                     honest |-> sigma.honest, proof |-> sigma.proof,
                     verdict |-> log_star_LogStarProof_verify(
                                     sigma.proof, public.pk0, public.cap_c, public.g,
                                     public.cap_x, sigma.inputs.setup, sigma.inputs.aux)]
    /\ UNCHANGED <<stage, num_parties, key_shares, message, rng, rounds, results, tamper,
                   ks_update, kr_session, hasher, bounded, machine, power>>

\* What a verifier of a log* proof is given besides the proof.
LogStarStatement(inputs) ==
    LET public == LogStarPublic(inputs)
    IN  [pk0 |-> public.pk0, cap_c |-> public.cap_c, g |-> public.g,
         cap_x |-> public.cap_x, setup |-> inputs.setup, aux |-> inputs.aux]

\* The changes of one field of a proof and of one input of the verifier.
ProofMutations ==
    {"e", "cap_s", "cap_a", "cap_a_randomizer", "cap_y", "cap_d",
     "z1", "z1_curve_order", "z1_modulus", "z2", "z2_modulus", "z3", "z3_order"}

InputMutations == {"pk0", "pk0_alone", "cap_c", "cap_c_randomizer", "g", "cap_x",
                   "setup", "setup_modulus", "aux"}

MutatedProof(proof, statement, mutation) ==
    CASE mutation = "e" -> [proof EXCEPT !.e = @ + 1]
      [] mutation = "cap_s" -> [proof EXCEPT !.cap_s = (@ + 1) % statement.setup.order]
      [] mutation = "cap_a" ->
            [proof EXCEPT !.cap_a.plaintext = (@ + 1) % statement.pk0]
      [] mutation = "cap_a_randomizer" ->
            [proof EXCEPT !.cap_a.randomizer = (@ + 1) % statement.pk0]
      [] mutation = "cap_y" -> [proof EXCEPT !.cap_y = PointAdd(@, GENERATOR)]
      [] mutation = "cap_d" -> [proof EXCEPT !.cap_d = (@ + 1) % statement.setup.order]
      [] mutation = "z1" -> [proof EXCEPT !.z1 = @ + 1]
      [] mutation = "z1_curve_order" -> [proof EXCEPT !.z1 = @ + CurveOrder]
      [] mutation = "z1_modulus" -> [proof EXCEPT !.z1 = @ + statement.pk0]
      [] mutation = "z2" -> [proof EXCEPT !.z2 = (@ + 1) % statement.pk0]
      [] mutation = "z2_modulus" -> [proof EXCEPT !.z2 = @ + statement.pk0]
      [] mutation = "z3" -> [proof EXCEPT !.z3 = @ + 1]
      [] mutation = "z3_order" -> [proof EXCEPT !.z3 = @ + statement.setup.order]
      [] OTHER -> proof

MutatedStatement(statement, mutation) ==
    CASE mutation = "pk0" ->
            [statement EXCEPT !.pk0 = PaillierModulus(2),
                              !.cap_c = Rekeyed(@, PaillierModulus(2))]
      [] mutation = "pk0_alone" -> [statement EXCEPT !.pk0 = PaillierModulus(2)]
      [] mutation = "cap_c" ->
            [statement EXCEPT !.cap_c.plaintext = (@ + 1) % statement.pk0]
      [] mutation = "cap_c_randomizer" ->
            [statement EXCEPT !.cap_c.randomizer = (@ + 1) % statement.pk0]
      [] mutation = "g" -> [statement EXCEPT !.g = PointAdd(@, GENERATOR)]
      [] mutation = "cap_x" -> [statement EXCEPT !.cap_x = PointAdd(@, GENERATOR)]
      [] mutation = "setup" ->
            [statement EXCEPT !.setup = RPParams_random(1, statement.setup.lambda + 1)]
      [] mutation = "setup_modulus" ->
            [statement EXCEPT !.setup = RPParams_random(3, statement.setup.lambda)]
      [] mutation = "aux" -> [statement EXCEPT !.aux = @ + 1]
      [] OTHER -> statement

\* A verifier is given a proof of new with one field changed, or is given the proof
\* with one input other than the prover's. A public key that is not the key of the
\* ciphertext fails the assertion verify opens with.
LogStarVerifyMutated ==
    /\ sigma.stage = "proved"
    /\ sigma.kind = "log_star"
    /\ \E mutation \in ProofMutations \cup InputMutations :
          LET sent == LogStarStatement(sigma.inputs)
              proof == MutatedProof(sigma.proof, sent, mutation)
              statement == MutatedStatement(sent, mutation)
              panicked == log_star_LogStarProof_verify_panic(
                              statement.pk0, statement.cap_c).kind = "panic"
          IN  sigma' = [stage |-> "mutated", kind |-> sigma.kind, inputs |-> sigma.inputs,
                        honest |-> sigma.honest, sent |-> sigma.proof, proof |-> proof,
                        statement |-> statement, mutation |-> mutation,
                        panicked |-> panicked,
                        verdict |-> IF panicked THEN FALSE
                                    ELSE log_star_LogStarProof_verify(
                                             proof, statement.pk0, statement.cap_c,
                                             statement.g, statement.cap_x,
                                             statement.setup, statement.aux)]
    /\ UNCHANGED <<stage, num_parties, key_shares, message, rng, rounds, results, tamper,
                   ks_update, kr_session, hasher, bounded, machine, power>>

\* A dec proof made by DecProof::new with the draws alpha, beta, r of each repetition.
DecProve(alphas, betas, honest) ==
    /\ sigma.stage = "inputs"
    /\ sigma.kind = "dec"
    /\ \E ds \in [1 .. SECURITY_PARAMETER -> [alpha : alphas, beta : betas, r : {1}]] :
          LET secret == [x |-> sigma.inputs.x, y |-> sigma.inputs.y,
                         rho |-> sigma.inputs.rho]
              made == dec_new_DecProof_new(ds, secret, DecPublic(sigma.inputs),
                                           sigma.inputs.setup, sigma.inputs.aux)
          IN  IF dec_new_DecProof_new_panic(secret, DecPublic(sigma.inputs)).kind = "panic"
              THEN sigma' = [stage |-> "panicked", kind |-> sigma.kind,
                             inputs |-> sigma.inputs, honest |-> honest, panic |-> made]
              ELSE sigma' = [stage |-> "proved", kind |-> sigma.kind,
                             inputs |-> sigma.inputs, honest |-> honest, proof |-> made]
    /\ UNCHANGED <<stage, num_parties, key_shares, message, rng, rounds, results, tamper,
                   ks_update, kr_session, hasher, bounded, machine, power>>

DecNew ==
    DecProve(ExponentRangeSamples(L_BOUND + EPS_BOUND),
             {0 - Pow2(LP_BOUND + EPS_BOUND), 0, Pow2(LP_BOUND + EPS_BOUND)}, TRUE)

\* A prover that draws masks outside their ranges and then does as new does.
DecOutOfRange ==
    DecProve(OutOfRangeSamples(L_BOUND + EPS_BOUND) \cup {0},
             OutOfRangeSamples(LP_BOUND + EPS_BOUND) \cup {0}, FALSE)

DecVerify ==
    /\ sigma.stage = "proved"
    /\ sigma.kind = "dec"
    /\ sigma' = [stage |-> "verified", kind |-> sigma.kind, inputs |-> sigma.inputs,
                 honest |-> sigma.honest, proof |-> sigma.proof,
                 verdict |-> dec_new_DecProof_verify(sigma.proof, DecPublic(sigma.inputs),
                                                     sigma.inputs.setup, sigma.inputs.aux)]
    /\ UNCHANGED <<stage, num_parties, key_shares, message, rng, rounds, results, tamper,
                   ks_update, kr_session, hasher, bounded, machine, power>>

NextSigma ==
    \/ LogStarNew
    \/ LogStarOutOfRange
    \/ LogStarVerify
    \/ LogStarVerifyMutated
    \/ DecNew
    \/ DecOutOfRange
    \/ DecVerify

SpecSigma == InitSigma /\ [][NextSigma]_vars

----
\* The hasher (tools::hashing).  The digest is held as the byte stream absorbed so far.

MaxLen == 3

MaxChained == 2

\* The bytes the byte strings are made of: b"ABCD".
Bytes == {65, 66, 67, 68}

ByteStrings == UNION {[1 .. n -> Bytes] : n \in 0 .. MaxLen}

\* u64::to_be_bytes, for the width given.
RECURSIVE to_be_bytes(_, _)
to_be_bytes(n, width) ==
    IF width = 0 THEN << >> ELSE to_be_bytes(n \div 256, width - 1) \o <<n % 256>>

\* XofHasher::chain_raw_bytes: the digest is updated with the bytes.
chain_raw_bytes(absorbed, bytes) == absorbed \o bytes

\* Variant of chain_bytes that absorbs the bytes without their length.
chain_bytes_unprefixed(absorbed, bytes) == chain_raw_bytes(absorbed, bytes)

\* Chain::chain_bytes: the length as a u64, big-endian, then the bytes.
chain_bytes(absorbed, bytes) ==
    chain_raw_bytes(chain_raw_bytes(absorbed, to_be_bytes(Len(bytes), 8)), bytes)

\* XofHasher::new.
XofHasher_new == << >>

\* XofHasher::new_with_dst.
XofHasher_new_with_dst(dst) == chain_bytes(XofHasher_new, dst)

InitHasher ==
    /\ RunAtRest
    /\ machine = Idle
    /\ power = Idle
    /\ ks_update = NoUpdate
    /\ kr_session = NoSession
    /\ sigma = Idle
    /\ bounded = Idle
    /\ \/ hasher = [stage |-> "chaining", with_dst |-> FALSE, dst |-> << >>,
                    chained |-> << >>, absorbed |-> XofHasher_new]
       \/ \E dst \in {tag \in ByteStrings : Len(tag) <= 1} :
             hasher = [stage |-> "chaining", with_dst |-> TRUE, dst |-> dst,
                       chained |-> << >>, absorbed |-> XofHasher_new_with_dst(dst)]

\* A call of chain_bytes on the hasher.
ChainBytes ==
    /\ hasher.stage = "chaining"
    /\ Len(hasher.chained) < MaxChained
    /\ \E bytes \in ByteStrings :
          hasher' = [hasher EXCEPT !.chained = Append(@, bytes),
                                   !.absorbed = chain_bytes(@, bytes)]
    /\ UNCHANGED <<stage, num_parties, key_shares, message, rng, rounds, results, tamper,
                   ks_update, kr_session, sigma, bounded, machine, power>>

NextHasher ==
    \/ ChainBytes

SpecHasher == InitHasher /\ [][NextHasher]_vars

----
\* Bounded (uint::bounded).  The integer type T is the one of 8 bits and its Wide the
\* one of 16 bits; a Bounded is its value, its bound and the width of its type.

BITS == 8

MaxCalls == 3

\* Integer::bits: the position of the highest bit set.
RECURSIVE bits(_)
bits(v) == IF v = 0 THEN 0 ELSE 1 + bits(v \div 2)

\* uint's from_be_bytes.
RECURSIVE uint_from_be_bytes(_)
uint_from_be_bytes(bytes) ==
    IF bytes = << >> THEN 0
    ELSE uint_from_be_bytes(SubSeq(bytes, 1, Len(bytes) - 1)) * 256 + bytes[Len(bytes)]

\* Option::None, CtOption without a value and Err alike: no Bounded is handed out.
None == [none |-> TRUE]

\* Bounded::new.
Bounded_new(value, bound, type_bits) ==
    IF bound > type_bits \/ bits(value) > bound THEN None
    ELSE [value |-> value, bound |-> bound, type_bits |-> type_bits]

\* Variant of the conversion to PackedBounded that keeps the leading bytes.
PackedBounded_from_leading(val) ==
    LET repr == to_be_bytes(val.value, val.type_bits \div 8)
        bound_bytes == (val.bound + 7) \div 8
    IN  [bound |-> val.bound, bytes |-> SubSeq(repr, 1, bound_bytes)]

\* From<Bounded<T>> for PackedBounded.
PackedBounded_from(val) ==
    LET repr == to_be_bytes(val.value, val.type_bits \div 8)
        bound_bytes == (val.bound + 7) \div 8
    IN  [bound |-> val.bound,
         bytes |-> SubSeq(repr, Len(repr) - bound_bytes + 1, Len(repr))]

\* TryFrom<PackedBounded> for Bounded<T>.
Bounded_try_from(val, type_bits) ==
    IF type_bits \div 8 < Len(val.bytes) THEN None
    ELSE Bounded_new(uint_from_be_bytes(val.bytes), val.bound, type_bits)

\* The add_mod of the integer type (crypto-bigint): the sum with its carry, less the
\* modulus once, the modulus added back when that borrowed.
Uint_add_mod(a, b, p, type_bits) ==
    IF a + b < p THEN a + b ELSE (a + b - p) % Pow2(type_bits)

\* Bounded::add_mod.
Bounded_add_mod(self, rhs, modulus) ==
    [value |-> Uint_add_mod(self.value, rhs.value, modulus, self.type_bits),
     bound |-> bits(modulus),
     type_bits |-> self.type_bits]

\* Bounded::into_wide.
Bounded_into_wide(self) ==
    [value |-> self.value, bound |-> self.bound, type_bits |-> 2 * self.type_bits]

\* Bounded::mul_wide.
Bounded_mul_wide(self, rhs) ==
    [value |-> self.value * rhs.value,
     bound |-> self.bound + rhs.bound,
     type_bits |-> 2 * self.type_bits]

\* CheckedAdd for Bounded.
Bounded_checked_add(self, rhs) ==
    LET bound == Max(self.bound, rhs.bound) + 1
        in_range == bound < self.type_bits
        result == [value |-> (self.value + rhs.value) % Pow2(self.type_bits),
                   bound |-> bound,
                   type_bits |-> self.type_bits]
    IN  IF in_range THEN result ELSE None

\* CheckedMul for Bounded.
Bounded_checked_mul(self, rhs) ==
    LET bound == self.bound + rhs.bound
        in_range == bound < self.type_bits
        result == [value |-> (self.value * rhs.value) % Pow2(self.type_bits),
                   bound |-> bound,
                   type_bits |-> self.type_bits]
    IN  IF in_range THEN result ELSE None

\* ConditionallySelectable for Bounded.
Bounded_conditional_select(a, b, choice) ==
    [value |-> IF choice THEN b.value ELSE a.value,
     bound |-> IF choice THEN b.bound ELSE a.bound,
     type_bits |-> a.type_bits]

\* The values and bounds the calls are given.
UintSamples == {0, 1, 3, 50, 200, Pow2(BITS) - 1}

BoundSamples == {0, 1, 2, BITS - 1, BITS, BITS + 1}

\* The second operands: the Bounded that Bounded::new hands out for the type.
Operands(type_bits) ==
    {Bounded_new(v, b, type_bits) : v \in {1, 3, 200}, b \in {2, BITS}} \ {None}

\* The serialized values a Bounded is read from.
PackedSamples ==
    [bound : {0, 1, BITS, 2 * BITS + 1},
     bytes : {<< >>, <<0>>, <<1>>, <<255>>, <<1, 0>>, <<255, 255>>, <<0, 0, 1>>}]

NoInput == [value |-> 0, bound |-> 0]

InitBounded ==
    /\ RunAtRest
    /\ machine = Idle
    /\ power = Idle
    /\ ks_update = NoUpdate
    /\ kr_session = NoSession
    /\ sigma = Idle
    /\ hasher = Idle
    /\ \E value \in UintSamples : \E bound \in BoundSamples :
          bounded = [stage |-> "input", input |-> [value |-> value, bound |-> bound],
                     val |-> None, last |-> "none", args |-> << >>, calls |-> 0]

\* The state after a call on the operands args that returned made, None included.
BoundedAfter(made, call, args) ==
    /\ bounded' = [stage |-> IF made = None THEN "none" ELSE "value",
                   input |-> IF call = "new" THEN bounded.input ELSE NoInput,
                   val |-> made, last |-> call, args |-> args,
                   calls |-> bounded.calls + 1]
    /\ UNCHANGED <<stage, num_parties, key_shares, message, rng, rounds, results, tamper,
                   ks_update, kr_session, sigma, hasher, machine, power>>

BoundedNew ==
    /\ bounded.stage = "input"
    /\ BoundedAfter(Bounded_new(bounded.input.value, bounded.input.bound, BITS), "new", << >>)

BoundedHeld == bounded.stage = "value" /\ bounded.calls < MaxCalls

\* A Bounded is serialized and read back.
BoundedRoundTrip ==
    /\ BoundedHeld
    /\ BoundedAfter(Bounded_try_from(PackedBounded_from(bounded.val), bounded.val.type_bits),
                    "round_trip", <<bounded.val>>)

\* A Bounded is read from a serialized value.
BoundedDeserialize ==
    /\ BoundedHeld
    /\ \E packed \in PackedSamples :
          BoundedAfter(Bounded_try_from(packed, bounded.val.type_bits), "try_from",
                       <<packed, bounded.val.type_bits>>)

BoundedAddMod ==
    /\ BoundedHeld
    /\ \E rhs \in Operands(bounded.val.type_bits) : \E modulus \in {3, 200, Pow2(BITS) - 1} :
          BoundedAfter(Bounded_add_mod(bounded.val, rhs, modulus), "add_mod", <<bounded.val, rhs>>)

BoundedIntoWide ==
    /\ BoundedHeld
    /\ bounded.val.type_bits = BITS
    /\ BoundedAfter(Bounded_into_wide(bounded.val), "into_wide", <<bounded.val>>)

BoundedMulWide ==
    /\ BoundedHeld
    /\ bounded.val.type_bits = BITS
    /\ \E rhs \in Operands(bounded.val.type_bits) :
          BoundedAfter(Bounded_mul_wide(bounded.val, rhs), "mul_wide", <<bounded.val, rhs>>)

BoundedCheckedAdd ==
    /\ BoundedHeld
    /\ \E rhs \in Operands(bounded.val.type_bits) :
          BoundedAfter(Bounded_checked_add(bounded.val, rhs), "checked_add", <<bounded.val, rhs>>)

BoundedCheckedMul ==
    /\ BoundedHeld
    /\ \E rhs \in Operands(bounded.val.type_bits) :
          BoundedAfter(Bounded_checked_mul(bounded.val, rhs), "checked_mul", <<bounded.val, rhs>>)

BoundedConditionalSelect ==
    /\ BoundedHeld
    /\ \E rhs \in Operands(bounded.val.type_bits) : \E choice \in BOOLEAN :
          BoundedAfter(Bounded_conditional_select(bounded.val, rhs, choice),
                       "conditional_select", <<bounded.val, rhs>>)

NextBounded ==
    \/ BoundedNew
    \/ BoundedRoundTrip
    \/ BoundedDeserialize
    \/ BoundedAddMod
    \/ BoundedIntoWide
    \/ BoundedMulWide
    \/ BoundedCheckedAdd
    \/ BoundedCheckedMul
    \/ BoundedConditionalSelect

SpecBounded == InitBounded /\ [][NextBounded]_vars

----
\* The creation of a first round (FirstRound::new of pre-signing and of signing), called
\* with a number of parties and a party index that need not be those of the key share.

\* FirstRound::new: both implementations end in Ok(Self { .. }); none returns an
\* InitError.
FirstRound_new(protocol, seed, num, party_idx, context) ==
    IF protocol = "presigning"
    THEN [kind |-> "ok", round |-> PresigningRound1_new(seed, party_idx, context)]
    ELSE [kind |-> "ok", round |-> SigningRound1_new(num, party_idx, context)]

\* The key share of a first round's context.
ContextKeyShare(protocol, context) ==
    IF protocol = "presigning" THEN context ELSE context.key_share

InitFirstRound ==
    /\ RunAtRest
    /\ ks_update = NoUpdate
    /\ kr_session = NoSession
    /\ sigma = Idle
    /\ hasher = Idle
    /\ bounded = Idle
    /\ power = Idle
    /\ \E n \in 2 .. MaxParties : \E i \in 0 .. (n - 1) :
       \E num \in 1 .. (MaxParties + 1) : \E party_idx \in 0 .. MaxParties :
       \E seed \in 0 .. MaxSeed :
          LET key_share == CentralizedKeyShare(n, [j \in 0 .. (n - 1) |-> 1], i)
          IN  \/ machine = [stage |-> "inputs", protocol |-> "presigning", seed |-> seed,
                            num_parties |-> num, party_idx |-> party_idx,
                            context |-> key_share]
              \/ machine = [stage |-> "inputs", protocol |-> "signing", seed |-> seed,
                            num_parties |-> num, party_idx |-> party_idx,
                            context |-> [message |-> 1,
                                         presigning |->
                                             [nonce |-> GENERATOR,
                                              ephemeral_scalar_share |-> random_scalar(seed, 0),
                                              product_share |-> random_scalar(seed, 1)],
                                         key_share |-> key_share]]

FirstRoundNew ==
    /\ machine.stage = "inputs"
    /\ machine' = [stage |-> "created", protocol |-> machine.protocol, seed |-> machine.seed,
                   num_parties |-> machine.num_parties, party_idx |-> machine.party_idx,
                   context |-> machine.context,
                   outcome |-> FirstRound_new(machine.protocol, machine.seed,
                                              machine.num_parties, machine.party_idx,
                                              machine.context)]
    /\ UNCHANGED <<stage, num_parties, key_shares, message, rng, rounds, results, tamper,
                   ks_update, kr_session, sigma, hasher, bounded, power>>

NextFirstRound ==
    \/ FirstRoundNew

SpecFirstRound == InitFirstRound /\ [][NextFirstRound]_vars

----
\* Sessions: the key-refresh session state (sessions/auxiliary.rs) and the rounds of
\* interactive signing (protocols/interactive_signing.rs).

\* A call that ends in panic!() or unreachable!().
Panic == [kind |-> "panic"]

\* enum AuxiliaryStage: the variants, the round each drives and the subround of the
\* echo-broadcast consensus it is, if any.
AuxiliaryStages ==
    <<[name |-> "Round1", round |-> 1, subround |-> "PreConsensusSubround"],
      [name |-> "Round1Consensus", round |-> 1, subround |-> "ConsensusSubround"],
      [name |-> "Round2", round |-> 2, subround |-> "none"],
      [name |-> "Round3", round |-> 3, subround |-> "none"],
      [name |-> "Result", round |-> 0, subround |-> "none"]>>

\* A key-refresh round is run with echo-broadcast consensus when the session holds a
\* ConsensusSubround of it.
auxiliary_requires_consensus(round_num) ==
    \E k \in DOMAIN AuxiliaryStages :
        /\ AuxiliaryStages[k].round = round_num
        /\ AuxiliaryStages[k].subround = "ConsensusSubround"

\* BroadcastRound::REQUIRES_CONSENSUS of the pre-signing rounds: Round1 sets it, Round2
\* and Round3 leave the default of the trait.
presigning_REQUIRES_CONSENSUS(round_num) == round_num = 1

\* BroadcastRound::REQUIRES_CONSENSUS of signing Round1.
signing_REQUIRES_CONSENSUS == FALSE

\* AuxiliaryState::new: the session at Round1, made of Round1::new.
AuxiliaryState_new(seed, session_id, context, index) ==
    [stage |-> "Round1",
     round |-> [session_id |-> session_id, num_parties |-> context, index |-> index,
                seed |-> seed]]

\* Variant of finalize_stage that goes from Round1 to Round2.
AuxiliaryState_finalize_stage_skipping(self) ==
    CASE self.stage = "Round1" -> [self EXCEPT !.stage = "Round2"]
      [] self.stage = "Round1Consensus" -> [self EXCEPT !.stage = "Round2"]
      [] self.stage = "Round2" -> [self EXCEPT !.stage = "Round3"]
      [] self.stage = "Round3" -> [self EXCEPT !.stage = "Result"]
      [] OTHER -> Panic

\* AuxiliaryState::finalize_stage; the stage's finalize hands on the round's data.
AuxiliaryState_finalize_stage(self) ==
    CASE self.stage = "Round1" -> [self EXCEPT !.stage = "Round1Consensus"]
      [] self.stage = "Round1Consensus" -> [self EXCEPT !.stage = "Round2"]
      [] self.stage = "Round2" -> [self EXCEPT !.stage = "Round3"]
      [] self.stage = "Round3" -> [self EXCEPT !.stage = "Result"]
      [] OTHER -> Panic

\* AuxiliaryState::result.
AuxiliaryState_result(self) ==
    IF self.stage = "Result" THEN [kind |-> "ok", value |-> <<"KeyShareChange", self.round>>]
    ELSE Panic

\* AuxiliaryState::is_final_stage.
AuxiliaryState_is_final_stage(self) == self.stage = "Result"

\* AuxiliaryState::current_stage_num.
AuxiliaryState_current_stage_num(self) ==
    CASE self.stage = "Round1" -> [kind |-> "ok", value |-> 1]
      [] self.stage = "Round1Consensus" -> [kind |-> "ok", value |-> 2]
      [] self.stage = "Round2" -> [kind |-> "ok", value |-> 3]
      [] self.stage = "Round3" -> [kind |-> "ok", value |-> 4]
      [] OTHER -> Panic

\* AuxiliaryState::stages_num.
AuxiliaryState_stages_num(self) == 4

\* The rounds of interactive signing and the round each wraps.
InteractiveRounds ==
    <<[name |-> "Round1Part1", wraps |-> <<"presigning", "Round1Part1">>],
      [name |-> "Round1Part2", wraps |-> <<"presigning", "Round1Part2">>],
      [name |-> "Round2", wraps |-> <<"presigning", "Round2">>],
      [name |-> "Round3", wraps |-> <<"presigning", "Round3">>],
      [name |-> "SigningRound", wraps |-> <<"signing", "Round1">>]>>

\* Round::round_num of the rounds of interactive signing.
InteractiveSigning_round_num(name) ==
    CASE name = "Round1Part1" -> 1
      [] name = "Round1Part2" -> 2
      [] name = "Round2" -> 3
      [] name = "Round3" -> 4
      [] name = "SigningRound" -> 5

\* Round::next_round_num; 0 stands for None.
InteractiveSigning_next_round_num(name) ==
    CASE name = "Round1Part1" -> 2
      [] name = "Round1Part2" -> 3
      [] name = "Round2" -> 4
      [] name = "Round3" -> 5
      [] name = "SigningRound" -> 0

\* requires_broadcast_consensus of the wrapped rounds: Round1Part1 is the broadcast part
\* of pre-signing Round 1, Round1Part2 its part of direct messages.
Wrapped_requires_broadcast_consensus(wraps) ==
    CASE wraps = <<"presigning", "Round1Part1">> -> presigning_REQUIRES_CONSENSUS(1)
      [] wraps = <<"presigning", "Round1Part2">> -> FALSE
      [] wraps = <<"presigning", "Round2">> -> presigning_REQUIRES_CONSENSUS(2)
      [] wraps = <<"presigning", "Round3">> -> presigning_REQUIRES_CONSENSUS(3)
      [] wraps = <<"signing", "Round1">> -> signing_REQUIRES_CONSENSUS

\* Round::requires_broadcast_consensus of the rounds of interactive signing.
InteractiveSigning_requires_broadcast_consensus(name) ==
    Wrapped_requires_broadcast_consensus(
        InteractiveRounds[InteractiveSigning_round_num(name)].wraps)

\* What the finalize of a wrapped round returns: the rounds that lead to a next round
\* return it or an error, the last round of a protocol its result or an error.
WrappedOutcomes(name) ==
    {[kind |-> "Err", value |-> e] : e \in {"Provable", "Unprovable"}}
    \cup (IF name \in {"Round1Part1", "Round1Part2", "Round2"}
          THEN {[kind |-> "AnotherRound", value |-> "round"]}
          ELSE {[kind |-> "Result", value |-> r] : r \in {"result", "other result"}})

\* Variant of finalize in which Round2 hands on to the signing round.
InteractiveSigning_finalize_skipping(self, outcome, signing_new) ==
    IF outcome.kind = "Err" THEN outcome
    ELSE IF self.name \in {"Round1Part1", "Round1Part2", "Round2"}
    THEN IF outcome.kind = "Result" THEN Panic
         ELSE [kind |-> "AnotherRound",
               value |-> [name |-> IF self.name = "Round2" THEN "SigningRound"
                                   ELSE InteractiveRounds[
                                            InteractiveSigning_round_num(self.name) + 1].name,
                          context |-> self.context]]
    ELSE IF self.name = "Round3"
    THEN IF outcome.kind = "AnotherRound" THEN Panic
         ELSE IF signing_new.kind = "ok"
         THEN [kind |-> "AnotherRound",
               value |-> [name |-> "SigningRound", context |-> self.context]]
         ELSE [kind |-> "Err", value |-> "ProtocolMerge"]
    ELSE IF outcome.kind = "AnotherRound" THEN Panic
         ELSE outcome

\* Round::finalize of the rounds of interactive signing, for the outcome of the wrapped
\* round's finalize and, in Round3, that of signing::Round1::new.
InteractiveSigning_finalize(self, outcome, signing_new) ==
    IF outcome.kind = "Err" THEN outcome
    ELSE IF self.name \in {"Round1Part1", "Round1Part2", "Round2"}
    THEN IF outcome.kind = "Result" THEN Panic
         ELSE [kind |-> "AnotherRound",
               value |-> [name |-> InteractiveRounds[InteractiveSigning_round_num(self.name)
                                                     + 1].name,
                          context |-> self.context]]
    ELSE IF self.name = "Round3"
    THEN IF outcome.kind = "AnotherRound" THEN Panic
         ELSE IF signing_new.kind = "ok"
         THEN [kind |-> "AnotherRound",
               value |-> [name |-> "SigningRound", context |-> self.context]]
         ELSE [kind |-> "Err", value |-> "ProtocolMerge"]
    ELSE IF outcome.kind = "AnotherRound" THEN Panic
         ELSE outcome

\* Round1Part1::new.
InteractiveSigning_new(seed, num, party_idx, context) ==
    [name |-> "Round1Part1",
     context |-> [key_share |-> context.key_share, message |-> context.message,
                  num_parties |-> num, party_idx |-> party_idx, seed |-> seed]]

InitSessions ==
    /\ RunAtRest
    /\ ks_update = NoUpdate
    /\ kr_session = NoSession
    /\ sigma = Idle
    /\ hasher = Idle
    /\ bounded = Idle
    /\ power = Idle
    /\ \E n \in 2 .. MaxParties : \E i \in 0 .. (n - 1) : \E seed \in 0 .. MaxSeed :
          \/ machine = [stage |-> "running", protocol |-> "auxiliary",
                        state |-> AuxiliaryState_new(seed, "session", n, i),
                        visited |-> <<"Round1">>, calls |-> 0, last |-> NoResult]
          \/ \E m \in {0, 1} :
                machine = [stage |-> "running", protocol |-> "interactive_signing",
                           state |-> InteractiveSigning_new(
                                         seed, n, i,
                                         [key_share |-> CentralizedKeyShare(
                                                            n, [j \in 0 .. (n - 1) |-> 1], i),
                                          message |-> m]),
                           visited |-> <<"Round1Part1">>, calls |-> 0, last |-> NoResult]

\* A call of finalize_stage on the session state, also on one that holds the result.
AuxiliaryFinalizeStage ==
    /\ machine.stage = "running"
    /\ machine.protocol = "auxiliary"
    /\ LET next == AuxiliaryState_finalize_stage(machine.state)
       IN  machine' = IF next = Panic
                      THEN [machine EXCEPT !.stage = "panicked", !.calls = @ + 1,
                                           !.last = Panic]
                      ELSE [machine EXCEPT !.state = next,
                                           !.visited = Append(@, next.stage),
                                           !.calls = @ + 1,
                                           !.last = [kind |-> "ok"]]
    /\ UNCHANGED <<stage, num_parties, key_shares, message, rng, rounds, results, tamper,
                   ks_update, kr_session, sigma, hasher, bounded, power>>

\* A call of finalize on the current round of interactive signing.
InteractiveFinalize ==
    /\ machine.stage = "running"
    /\ machine.protocol = "interactive_signing"
    /\ \E outcome \in WrappedOutcomes(machine.state.name) :
          LET fin == InteractiveSigning_finalize(
                         machine.state, outcome,
                         FirstRound_new("signing", machine.state.context.seed,
                                        machine.state.context.num_parties,
                                        machine.state.context.party_idx,
                                        [message |-> machine.state.context.message,
                                         presigning |->
                                             [nonce |-> GENERATOR,
                                              ephemeral_scalar_share |-> 1,
                                              product_share |-> 1],
                                         key_share |-> machine.state.context.key_share]))
          IN  machine' =
                  IF fin.kind = "AnotherRound"
                  THEN [machine EXCEPT !.state = fin.value,
                                       !.visited = Append(@, fin.value.name),
                                       !.calls = @ + 1,
                                       !.last = [kind |-> "AnotherRound", wrapped |-> outcome]]
                  ELSE IF fin = Panic
                  THEN [machine EXCEPT !.stage = "panicked",
                                       !.calls = @ + 1,
                                       !.last = [kind |-> "panic", value |-> "panic",
                                                 wrapped |-> outcome]]
                  ELSE [machine EXCEPT !.stage = IF fin.kind = "Err" THEN "failed"
                                                 ELSE "finished",
                                       !.calls = @ + 1,
                                       !.last = [kind |-> fin.kind, value |-> fin.value,
                                                 wrapped |-> outcome]]
    /\ UNCHANGED <<stage, num_parties, key_shares, message, rng, rounds, results, tamper,
                   ks_update, kr_session, sigma, hasher, bounded, power>>

NextSessions ==
    \/ AuxiliaryFinalizeStage
    \/ InteractiveFinalize

SpecSessions == InitSessions /\ [][NextSessions]_vars

----
\* Pre-signing with peers that send proofs which do not verify.

\* A proof that does not verify where it is sent: one made under another aux.
ForgedProof(proof) == [proof EXCEPT !.aux = <<shared_randomness, -1>>]

\* The parts of a Round 2 message a misbehaving sender may replace: the ciphertext D
\* (by an encryption of a value outside the bound asserted of alpha) and the proofs.
Round2Parts == {"d", "psi", "psi_hat", "psi_hat_prime"}

forge_round2_message(msg, parts) ==
    [msg EXCEPT
        !.d = IF "d" \in parts THEN Pow2(Max(2 * L_BOUND, LP_BOUND) + 1) ELSE @,
        !.psi = IF "psi" \in parts THEN ForgedProof(@) ELSE @,
        !.psi_hat = IF "psi_hat" \in parts THEN ForgedProof(@) ELSE @,
        !.psi_hat_prime = IF "psi_hat_prime" \in parts THEN ForgedProof(@) ELSE @]

\* What the misbehaving senders do in a round: who they are and what they replace.
NoForgery == [round |-> "none", senders |-> {}, parts |-> {}]

Forgeries(round, parts) ==
    {[round |-> round, senders |-> ss, parts |-> ps] :
        ss \in SUBSET Parties, ps \in parts}

InitForged ==
    /\ InitRun
    /\ message = 0
    /\ \A i \in Parties : key_shares[i].secret_share # 0

ForgedStep1 ==
    /\ stage = "presigning1"
    /\ \E f \in Forgeries("presigning1", {{"proof"}}) :
        LET sent(j, i) ==
                LET proof == PresigningRound1_make_direct_message(rounds[j], i)
                IN  IF j \in f.senders THEN ForgedProof(proof) ELSE proof
            fin == [i \in Parties |->
                      PresigningRound1_finalize_to_next_round(
                          rounds[i],
                          [j \in Peers(i) |-> PresigningRound1_make_broadcast(rounds[j])],
                          [j \in Peers(i) |-> sent(j, i)])]
        IN  /\ Advance(fin, "presigning2")
            /\ tamper' = f
    /\ UNCHANGED <<num_parties, key_shares, message, rng>>
    /\ UNCHANGED <<ks_update, kr_session, sigma, hasher, bounded, machine, power>>

ForgedStep2 ==
    /\ stage = "presigning2"
    /\ \E f \in Forgeries("presigning2", SUBSET Round2Parts \ {{}}) :
        LET out == [i \in Parties |->
                      [j \in Peers(i) |-> PresigningRound2_make_direct_message(rounds[i], j)]]
            sent(j, i) ==
                IF j \in f.senders THEN forge_round2_message(out[j][i].msg, f.parts)
                ELSE out[j][i].msg
            received == [i \in Parties |->
                           [j \in Peers(i) |->
                               PresigningRound2_verify_direct_message(rounds[i], j, sent(j, i))]]
            fin == [i \in Parties |->
                      IF \A j \in Peers(i) : received[i][j].kind = "payload"
                      THEN [kind |-> "next_round",
                            round |-> PresigningRound2_finalize_to_next_round(
                                          rounds[i],
                                          [j \in Peers(i) |-> received[i][j].payload],
                                          [j \in Peers(i) |-> out[i][j].artefact])]
                      ELSE FirstBad(received[i])]
        IN  /\ Advance(fin, "presigning3")
            /\ tamper' = f
    /\ UNCHANGED <<num_parties, key_shares, message, rng>>
    /\ UNCHANGED <<ks_update, kr_session, sigma, hasher, bounded, machine, power>>

ForgedStep3 ==
    /\ stage = "presigning3"
    /\ \E f \in Forgeries("presigning3", {{"proof"}}) :
        LET sent(j, i) ==
                LET msg == PresigningRound3_make_direct_message(rounds[j], i)
                IN  IF j \in f.senders
                    THEN [msg EXCEPT !.psi_hat_pprime = ForgedProof(@)]
                    ELSE msg
            received == [i \in Parties |->
                           [j \in Peers(i) |->
                               PresigningRound3_verify_direct_message(rounds[i], j, sent(j, i))]]
        IN  /\ results' = [i \in Parties |->
                             IF \A j \in Peers(i) : received[i][j].kind = "payload"
                             THEN PresigningRound3_finalize_to_result(
                                      rounds[i], [j \in Peers(i) |-> received[i][j].payload])
                             ELSE FirstBad(received[i])]
            /\ tamper' = f
    /\ stage' = "presigned"
    /\ UNCHANGED <<num_parties, key_shares, message, rng, rounds>>
    /\ UNCHANGED <<ks_update, kr_session, sigma, hasher, bounded, machine, power>>

NextForged ==
    \/ PresigningStart
    \/ ForgedStep1
    \/ ForgedStep2
    \/ ForgedStep3

SpecForged == InitForged /\ [][NextForged]_vars

----
\* Rounds whose messages arrive in any order: the payloads are collected into a
\* HoleVec as they arrive, and finalize reads the HoleVec.

\* The orders in which the elements of S can arrive.
OrdersOf(S) ==
    {order \in [1 .. Cardinality(S) -> S] :
        \A a, b \in 1 .. Cardinality(S) : a # b => order[a] # order[b]}

\* Variant of the accumulator that keeps only the value inserted last.
HoleVecAccum_insert_replacing(accum, idx, value) == [j \in {idx} |-> value]

\* HoleVecAccum::insert(idx, value): the value goes to the slot of its sender.
HoleVecAccum_insert(accum, idx, value) ==
    [j \in DOMAIN accum \cup {idx} |-> IF j = idx THEN value ELSE accum[j]]

\* HoleVecAccum::new, the inserts of the arrivals in their order, and finalize: the
\* HoleVec of the payloads.
RECURSIVE HoleVecAccum_collect(_, _, _)
HoleVecAccum_collect(accum, payloads, order) ==
    IF order = << >> THEN accum
    ELSE HoleVecAccum_collect(
             HoleVecAccum_insert(accum, Head(order), payloads[Head(order)]),
             payloads, Tail(order))

HoleVec_of(payloads, order) == HoleVecAccum_collect(<< >>, payloads, order)

\* HoleVec::iter: the values of a HoleVec as its iterator yields them.  The order of
\* the iteration is left open: it is an order of the senders, the order of arrival
\* among them.
HoleVec_iter(vec, order) == [k \in 1 .. Len(order) |-> vec[order[k]]]

\* The senders by index, the order in which a party makes its own artefacts.
RECURSIVE IndexOrder(_)
IndexOrder(S) ==
    IF S = {} THEN << >>
    ELSE LET least == CHOOSE j \in S : \A k \in S : j <= k
         IN  <<least>> \o IndexOrder(S \ {least})

\* Iterator::sum of scalars, of points and of Signed values: the values added to
\* zero one after another.
RECURSIVE ScalarIterSum(_)
ScalarIterSum(values) ==
    IF values = << >> THEN 0
    ELSE ScalarAdd(ScalarIterSum(SubSeq(values, 1, Len(values) - 1)), values[Len(values)])

RECURSIVE PointIterSum(_)
PointIterSum(values) ==
    IF values = << >> THEN IDENTITY
    ELSE PointAdd(PointIterSum(SubSeq(values, 1, Len(values) - 1)), values[Len(values)])

RECURSIVE SignedIterSum(_)
SignedIterSum(values) ==
    IF values = << >> THEN 0
    ELSE SignedIterSum(SubSeq(values, 1, Len(values) - 1)) + values[Len(values)]

\* Variant of Round 2 finalize that takes the first Gamma_j it meets for the sum of
\* them.
PresigningRound2_finalize_iterating_first(round, dm_payloads, dm_artefacts, order) ==
    LET ctx == round.context
        payloads == HoleVec_iter(dm_payloads, order)
        artefacts == HoleVec_iter(dm_artefacts, IndexOrder(DOMAIN dm_artefacts))
        gamma == PointAdd(IF payloads = << >> THEN IDENTITY ELSE payloads[1].gamma,
                          mul_by_generator(ctx.gamma))
        big_delta == PointMul(gamma, ctx.ephemeral_scalar_share)
        delta == from_scalar(ctx.gamma) * from_scalar(ctx.ephemeral_scalar_share)
                 + SignedIterSum([k \in DOMAIN payloads |-> payloads[k].alpha])
                 + SignedIterSum([k \in DOMAIN artefacts |-> artefacts[k].beta])
        alpha_hat_sum == ScalarIterSum([k \in DOMAIN payloads |-> payloads[k].alpha_hat])
        beta_hat_sum == SignedIterSum([k \in DOMAIN artefacts |-> artefacts[k].beta_hat])
        product_share ==
            ScalarAdd(ScalarAdd(ScalarMul(ctx.key_share.secret_share,
                                          ctx.ephemeral_scalar_share),
                                alpha_hat_sum),
                      to_scalar(beta_hat_sum))
    IN  [context |-> ctx,
         delta |-> delta,
         product_share |-> product_share,
         big_delta |-> big_delta,
         big_gamma |-> gamma,
         k_ciphertexts |-> round.k_ciphertexts,
         g_ciphertexts |-> round.g_ciphertexts,
         cap_ds |-> [j \in DOMAIN dm_payloads |-> dm_payloads[j].cap_d],
         hat_cap_d |-> [j \in DOMAIN dm_payloads |-> dm_payloads[j].hat_cap_d],
         round2_artefacts |-> dm_artefacts]

\* Round2::finalize_to_next_round with its sums taken as the code takes them, over the
\* iterators of dm_payloads and dm_artefacts; cap_ds and hat_cap_d keep the slots of
\* the senders (map_ref).
PresigningRound2_finalize_iterating(round, dm_payloads, dm_artefacts, order) ==
    LET ctx == round.context
        payloads == HoleVec_iter(dm_payloads, order)
        artefacts == HoleVec_iter(dm_artefacts, IndexOrder(DOMAIN dm_artefacts))
        gamma == PointAdd(PointIterSum([k \in DOMAIN payloads |-> payloads[k].gamma]),
                          mul_by_generator(ctx.gamma))
        big_delta == PointMul(gamma, ctx.ephemeral_scalar_share)
        delta == from_scalar(ctx.gamma) * from_scalar(ctx.ephemeral_scalar_share)
                 + SignedIterSum([k \in DOMAIN payloads |-> payloads[k].alpha])
                 + SignedIterSum([k \in DOMAIN artefacts |-> artefacts[k].beta])
        alpha_hat_sum == ScalarIterSum([k \in DOMAIN payloads |-> payloads[k].alpha_hat])
        beta_hat_sum == SignedIterSum([k \in DOMAIN artefacts |-> artefacts[k].beta_hat])
        product_share ==
            ScalarAdd(ScalarAdd(ScalarMul(ctx.key_share.secret_share,
                                          ctx.ephemeral_scalar_share),
                                alpha_hat_sum),
                      to_scalar(beta_hat_sum))
    IN  [context |-> ctx,
         delta |-> delta,
         product_share |-> product_share,
         big_delta |-> big_delta,
         big_gamma |-> gamma,
         k_ciphertexts |-> round.k_ciphertexts,
         g_ciphertexts |-> round.g_ciphertexts,
         cap_ds |-> [j \in DOMAIN dm_payloads |-> dm_payloads[j].cap_d],
         hat_cap_d |-> [j \in DOMAIN dm_payloads |-> dm_payloads[j].hat_cap_d],
         round2_artefacts |-> dm_artefacts]

\* The sums of Round3::finalize_to_result over the iterator of dm_payloads.
PresigningRound3_delta_iterating(round, dm_payloads, order) ==
    LET payloads == HoleVec_iter(dm_payloads, order)
    IN  ScalarAdd(ScalarIterSum([k \in DOMAIN payloads |-> payloads[k].delta]),
                  to_scalar(round.delta))

PresigningRound3_big_delta_iterating(round, dm_payloads, order) ==
    LET payloads == HoleVec_iter(dm_payloads, order)
    IN  PointAdd(PointIterSum([k \in DOMAIN payloads |-> payloads[k].big_delta]),
                 round.big_delta)

PresigningRound3_finalize_iterating(round, dm_payloads, order) ==
    LET delta == PresigningRound3_delta_iterating(round, dm_payloads, order)
        big_delta == PresigningRound3_big_delta_iterating(round, dm_payloads, order)
    IN  IF mul_by_generator(delta) = big_delta
        THEN PresigningRound3_success(round, delta)
        ELSE PresigningRound3_abort(round)

\* The sum of the signing round's finalize over the iterator of the shares.
SigningRound1_s_iterating(round, shares, order) ==
    ScalarAdd(ScalarIterSum(HoleVec_iter(shares, order)), round.s_part)

SigningRound1_finalize_iterating(round, shares, order) ==
    LET s == SigningRound1_s_iterating(round, shares, order)
        sig == RecoverableSignature_from_scalars(
                   round.r, s, ks_verifying_key_as_point(round.context.key_share),
                   round.context.message)
    IN  IF sig.is_some
        THEN [kind |-> "signature", r |-> sig.r, s |-> sig.s]
        ELSE IF SigningRound1_proof_panic(round).kind = "panic"
        THEN SigningRound1_proof_panic(round)
        ELSE [kind |-> "proof", proof |-> SigningRound1_proof(round, s)]

\* The orders of arrival at every party in one round.
ArrivalOrders(round) ==
    {[round |-> round, order |-> o] : o \in [Parties -> UNION {OrdersOf(Peers(i)) : i \in Parties}]}

InitArrivals ==
    /\ InitRun
    /\ \A i \in Parties : key_shares[i].secret_share = 1

ArrivalStep2 ==
    /\ stage = "presigning2"
    /\ \E a \in ArrivalOrders("presigning2") :
        /\ \A i \in Parties : a.order[i] \in OrdersOf(Peers(i))
        /\ LET out == [i \in Parties |->
                         [j \in Peers(i) |->
                             PresigningRound2_make_direct_message(rounds[i], j)]]
               received == [i \in Parties |->
                              [j \in Peers(i) |->
                                  PresigningRound2_verify_direct_message(
                                      rounds[i], j, out[j][i].msg)]]
               fin == [i \in Parties |->
                         IF \A j \in Peers(i) : received[i][j].kind = "payload"
                         THEN [kind |-> "next_round",
                               round |-> PresigningRound2_finalize_iterating(
                                             rounds[i],
                                             HoleVec_of([j \in Peers(i) |-> received[i][j].payload],
                                                        a.order[i]),
                                             [j \in Peers(i) |-> out[i][j].artefact],
                                             a.order[i])]
                         ELSE FirstBad(received[i])]
           IN  Advance(fin, "presigning3")
        /\ tamper' = a
    /\ UNCHANGED <<num_parties, key_shares, message, rng>>
    /\ UNCHANGED <<ks_update, kr_session, sigma, hasher, bounded, machine, power>>

ArrivalStep3 ==
    /\ stage = "presigning3"
    /\ \E a \in ArrivalOrders("presigning3") :
        /\ \A i \in Parties : a.order[i] \in OrdersOf(Peers(i))
        /\ LET received == [i \in Parties |->
                              [j \in Peers(i) |->
                                  PresigningRound3_verify_direct_message(
                                      rounds[i], j,
                                      PresigningRound3_make_direct_message(rounds[j], i))]]
           IN  results' = [i \in Parties |->
                             IF \A j \in Peers(i) : received[i][j].kind = "payload"
                             THEN PresigningRound3_finalize_iterating(
                                      rounds[i],
                                      HoleVec_of([j \in Peers(i) |-> received[i][j].payload],
                                                 a.order[i]),
                                      a.order[i])
                             ELSE FirstBad(received[i])]
        /\ tamper' = a
    /\ stage' = "presigned"
    /\ UNCHANGED <<num_parties, key_shares, message, rng, rounds>>
    /\ UNCHANGED <<ks_update, kr_session, sigma, hasher, bounded, machine, power>>

ArrivalSigningStep ==
    /\ stage = "signing"
    /\ \E a \in ArrivalOrders("signing") :
        /\ \A i \in Parties : a.order[i] \in OrdersOf(Peers(i))
        /\ results' = [i \in Parties |->
                          SigningRound1_finalize_iterating(
                              rounds[i],
                              HoleVec_of([j \in Peers(i) |->
                                             SigningRound1_verify_broadcast(
                                                 rounds[i], j,
                                                 SigningRound1_make_broadcast(rounds[j]))],
                                         a.order[i]),
                              a.order[i])]
        /\ tamper' = a
    /\ stage' = "signed"
    /\ UNCHANGED <<num_parties, key_shares, message, rng, rounds>>
    /\ UNCHANGED <<ks_update, kr_session, sigma, hasher, bounded, machine, power>>

NextArrivals ==
    \/ PresigningStart
    \/ PresigningStep1
    \/ ArrivalStep2
    \/ ArrivalStep3
    \/ SigningStart
    \/ ArrivalSigningStep

SpecArrivals == InitArrivals /\ [][NextArrivals]_vars

----
\* Pre-signing up to Round 2 finalize for every draw of the shares k, gamma and of the
\* masks beta: two parties whose streams run through all the residues of the curve
\* order and of the range of the masks, and three parties with streams picked among
\* them.

MaskSeeds == 0 .. (CurveOrder * (2 * Pow2(LP_BOUND) + 1) - 1)

ThreePartySeeds == {4, 6, 13, 27, 48, 118}

InitMaskRun ==
    /\ stage = "init"
    /\ num_parties \in 2 .. MaxParties
    /\ key_shares = [i \in 0 .. (num_parties - 1) |->
                        CentralizedKeyShare(num_parties, [j \in 0 .. (num_parties - 1) |-> 1], i)]
    /\ message = 0
    /\ rng \in [0 .. (num_parties - 1) ->
                    IF num_parties = 2 THEN MaskSeeds ELSE ThreePartySeeds]
    /\ rounds = [i \in 0 .. (num_parties - 1) |-> NoRound]
    /\ results = [i \in 0 .. (num_parties - 1) |-> NoResult]
    /\ tamper = NoTamper
    /\ ks_update = NoUpdate
    /\ kr_session = NoSession
    /\ sigma = Idle
    /\ hasher = Idle
    /\ bounded = Idle
    /\ machine = Idle
    /\ power = Idle

NextMasks ==
    \/ PresigningStart
    \/ PresigningStep1
    \/ PresigningStep2

SpecMasks == InitMaskRun /\ [][NextMasks]_vars

----
\* Exponentiation by signed and wide exponents (uint/pow.rs). The base type T has
\* PowBits bits, its wide type twice and its extra-wide type four times as many; a
\* value in Montgomery form is its residue modulo the odd modulus.

PowBits == 5

PowModuli == {15, 23, 25}

\* base^exponent modulo the modulus, by squaring.
RECURSIVE ModPow(_, _, _)
ModPow(base, exponent, modulus) ==
    IF exponent = 0 THEN 1 % modulus
    ELSE LET half == ModPow(base, exponent \div 2, modulus)
             sq == (half * half) % modulus
         IN  IF exponent % 2 = 1 THEN (sq * base) % modulus ELSE sq

\* Monty::invert: the inverse, none for a residue that has none.
Monty_invert(v, modulus) ==
    IF \E x \in 0 .. (modulus - 1) : (v * x) % modulus = 1
    THEN [is_some |-> TRUE, value |-> CHOOSE x \in 0 .. (modulus - 1) : (v * x) % modulus = 1]
    ELSE [is_some |-> FALSE, value |-> 0]

\* PowBoundedExp::pow_bounded_exp(exponent, exponent_bits): the power by the low
\* exponent_bits bits of the exponent.
pow_bounded_exp(uint, exponent, exponent_bits, modulus) ==
    ModPow(uint, exponent % Pow2(exponent_bits), modulus)

\* hi_res.square(), times times.
RECURSIVE square_times(_, _, _)
square_times(v, times, modulus) ==
    IF times = 0 THEN v ELSE square_times((v * v) % modulus, times - 1, modulus)

\* HasWide::from_wide: the low and the high half of a value of 2 * half_bits bits.
from_wide(v, half_bits) == [lo |-> v % Pow2(half_bits), hi |-> v \div Pow2(half_bits)]

\* A call of pow_bounded_exp: the width of the exponent it is given and the
\* exponent_bits passed.
BoundedExpCall(width, exponent_bits) == [width |-> width, exponent_bits |-> exponent_bits]

\* The selection of the result that ends the signed functions; the inverse is taken
\* first, whatever the sign.
select_inverted(abs_result, modulus, is_negative, calls) ==
    LET inv_result == Monty_invert(abs_result, modulus)
    IN  IF ~inv_result.is_some
        THEN [kind |-> "panic", calls |-> calls]
        ELSE [kind |-> "value",
              value |-> IF is_negative THEN inv_result.value ELSE abs_result,
              calls |-> calls]

\* Variant of pow_wide that takes the bound as it comes.
pow_wide_unreduced(uint, exponent, bound_in, modulus) ==
    LET bits_T == PowBits
        bound == bound_in
        parts == from_wide(exponent, bits_T)
        lo_res == pow_bounded_exp(uint, parts.lo, Min(bits_T, bound), modulus)
        lo_call == BoundedExpCall(bits_T, Min(bits_T, bound))
    IN  IF bound > bits_T
        THEN LET hi_res == pow_bounded_exp(uint, parts.hi, bound - bits_T, modulus)
             IN  [value |-> (square_times(hi_res, bits_T, modulus) * lo_res) % modulus,
                  calls |-> <<lo_call, BoundedExpCall(bits_T, bound - bits_T)>>]
        ELSE [value |-> lo_res, calls |-> <<lo_call>>]

\* pow_wide(uint, exponent, bound): the value and the calls of pow_bounded_exp made.
pow_wide(uint, exponent, bound_in, modulus) ==
    LET bits_T == PowBits
        bound == bound_in % (2 * bits_T + 1)
        parts == from_wide(exponent, bits_T)
        lo_res == pow_bounded_exp(uint, parts.lo, Min(bits_T, bound), modulus)
        lo_call == BoundedExpCall(bits_T, Min(bits_T, bound))
    IN  IF bound > bits_T
        THEN LET hi_res == pow_bounded_exp(uint, parts.hi, bound - bits_T, modulus)
             IN  [value |-> (square_times(hi_res, bits_T, modulus) * lo_res) % modulus,
                  calls |-> <<lo_call, BoundedExpCall(bits_T, bound - bits_T)>>]
        ELSE [value |-> lo_res, calls |-> <<lo_call>>]

\* Variant of pow_signed that returns the power by the magnitude, whatever the sign.
pow_signed_unsigned(uint, exponent, modulus) ==
    select_inverted(pow_bounded_exp(uint, exponent.abs, exponent.bound, modulus), modulus,
                    FALSE, <<BoundedExpCall(PowBits, exponent.bound)>>)

pow_signed(uint, exponent, modulus) ==
    select_inverted(pow_bounded_exp(uint, exponent.abs, exponent.bound, modulus), modulus,
                    exponent.is_negative, <<BoundedExpCall(PowBits, exponent.bound)>>)

pow_signed_wide(uint, exponent, modulus) ==
    LET abs_result == pow_wide(uint, exponent.abs, exponent.bound, modulus)
    IN  select_inverted(abs_result.value, modulus, exponent.is_negative, abs_result.calls)

\* Variant of pow_signed_extra_wide that squares the high part once for every bit of
\* the base type instead of every bit of the wide type.
pow_signed_extra_wide_short(uint, exponent, modulus) ==
    LET bits_W == 2 * PowBits
        bound == exponent.bound
        parts == from_wide(exponent.abs, bits_W)
        lo_res == pow_wide(uint, parts.lo, Min(bits_W, bound), modulus)
    IN  IF bound > bits_W
        THEN LET hi_res == pow_wide(uint, parts.hi, bound - bits_W, modulus)
             IN  select_inverted(
                     (square_times(hi_res.value, PowBits, modulus) * lo_res.value) % modulus,
                     modulus, exponent.is_negative, lo_res.calls \o hi_res.calls)
        ELSE select_inverted(lo_res.value, modulus, exponent.is_negative, lo_res.calls)

pow_signed_extra_wide(uint, exponent, modulus) ==
    LET bits_W == 2 * PowBits
        bound == exponent.bound
        parts == from_wide(exponent.abs, bits_W)
        lo_res == pow_wide(uint, parts.lo, Min(bits_W, bound), modulus)
    IN  IF bound > bits_W
        THEN LET hi_res == pow_wide(uint, parts.hi, bound - bits_W, modulus)
             IN  select_inverted(
                     (square_times(hi_res.value, bits_W, modulus) * lo_res.value) % modulus,
                     modulus, exponent.is_negative, lo_res.calls \o hi_res.calls)
        ELSE select_inverted(lo_res.value, modulus, exponent.is_negative, lo_res.calls)

\* Variant of pow_signed_vartime that never inverts.
pow_signed_vartime_uninverted(uint, exponent, modulus) ==
    [kind |-> "value",
     value |-> pow_bounded_exp(uint, exponent.abs, exponent.bound, modulus),
     calls |-> <<BoundedExpCall(PowBits, exponent.bound)>>]

pow_signed_vartime(uint, exponent, modulus) ==
    LET abs_result == pow_bounded_exp(uint, exponent.abs, exponent.bound, modulus)
        calls == <<BoundedExpCall(PowBits, exponent.bound)>>
    IN  IF exponent.is_negative
        THEN LET inv_result == Monty_invert(abs_result, modulus)
             IN  IF inv_result.is_some
                 THEN [kind |-> "value", value |-> inv_result.value, calls |-> calls]
                 ELSE [kind |-> "panic", calls |-> calls]
        ELSE [kind |-> "value", value |-> abs_result, calls |-> calls]

\* Signed values of a type of type_bits bits: a magnitude of at most bound bits, a
\* sign (zero has none) and the bound, which is at most the width of the type.
SignedOf(magnitudes, type_bits) ==
    {[abs |-> a, is_negative |-> n, bound |-> b] :
        a \in magnitudes, n \in BOOLEAN, b \in 0 .. type_bits}

ValidSigned(e) == bits(e.abs) <= e.bound /\ (e.abs = 0 => ~e.is_negative)

NarrowExponents == {e \in SignedOf(0 .. (Pow2(PowBits) - 1), PowBits) : ValidSigned(e)}

WideMagnitudes == {0, 1, 2, 5, 31, 32, 33, 100, 512, 700, 1023}

WideExponents == {e \in SignedOf(WideMagnitudes, 2 * PowBits) : ValidSigned(e)}

ExtraWideMagnitudes == {0, 1, 7, 31, 32, 1023, 1024, 1025, 5000, 70000, 699050, 1048575}

ExtraWideExponents == {e \in SignedOf(ExtraWideMagnitudes, 4 * PowBits) : ValidSigned(e)}

\* The bounds pow_wide is called with on its own: every value around the multiples of
\* the width.
MaxPowBound == 4 * PowBits + 2

InitPow ==
    /\ RunAtRest
    /\ machine = Idle
    /\ ks_update = NoUpdate
    /\ kr_session = NoSession
    /\ sigma = Idle
    /\ hasher = Idle
    /\ bounded = Idle
    /\ \E modulus \in PowModuli : \E uint \in 0 .. (modulus - 1) :
          \/ \E e \in NarrowExponents :
                power = [stage |-> "input", width |-> "narrow", modulus |-> modulus,
                         uint |-> uint, exponent |-> e]
          \/ \E e \in WideExponents :
                power = [stage |-> "input", width |-> "wide", modulus |-> modulus,
                         uint |-> uint, exponent |-> e]
          \/ \E e \in ExtraWideExponents :
                power = [stage |-> "input", width |-> "extra_wide", modulus |-> modulus,
                         uint |-> uint, exponent |-> e]
          \/ \E a \in WideMagnitudes : \E b \in 0 .. MaxPowBound :
                power = [stage |-> "input", width |-> "unsigned_wide", modulus |-> modulus,
                         uint |-> uint,
                         exponent |-> [abs |-> a, is_negative |-> FALSE, bound |-> b]]

\* The state after a call that returned made.
PowAfter(call, made) ==
    /\ power' = [stage |-> "done", width |-> power.width, modulus |-> power.modulus,
                 uint |-> power.uint, exponent |-> power.exponent,
                 call |-> call, result |-> made]
    /\ UNCHANGED <<stage, num_parties, key_shares, message, rng, rounds, results, tamper,
                   ks_update, kr_session, sigma, hasher, bounded, machine>>

PowSigned ==
    /\ power.stage = "input" /\ power.width = "narrow"
    /\ PowAfter("pow_signed", pow_signed(power.uint, power.exponent, power.modulus))

PowSignedVartime ==
    /\ power.stage = "input" /\ power.width = "narrow"
    /\ PowAfter("pow_signed_vartime",
                pow_signed_vartime(power.uint, power.exponent, power.modulus))

PowSignedWide ==
    /\ power.stage = "input" /\ power.width \in {"narrow", "wide"}
    /\ PowAfter("pow_signed_wide", pow_signed_wide(power.uint, power.exponent, power.modulus))

PowSignedExtraWide ==
    /\ power.stage = "input" /\ power.width \in {"narrow", "wide", "extra_wide"}
    /\ PowAfter("pow_signed_extra_wide",
                pow_signed_extra_wide(power.uint, power.exponent, power.modulus))

PowWide ==
    /\ power.stage = "input" /\ power.width = "unsigned_wide"
    /\ LET made == pow_wide(power.uint, power.exponent.abs, power.exponent.bound,
                            power.modulus)
       IN  PowAfter("pow_wide", [kind |-> "value", value |-> made.value, calls |-> made.calls])

NextPow ==
    \/ PowSigned
    \/ PowSignedVartime
    \/ PowSignedWide
    \/ PowSignedExtraWide
    \/ PowWide

SpecPow == InitPow /\ [][NextPow]_vars

----
\* Properties.

\* The verifying key X of the run: the sum of the public shares.
RunVerifyingKey == ks_verifying_key_as_point(key_shares[0])

\* k and gamma of a pre-signing run, and x of its key shares.
RunK == ScalarSum([i \in Parties |-> rounds[i].context.ephemeral_scalar_share], Parties)

RunGamma == ScalarSum([i \in Parties |-> rounds[i].context.gamma], Parties)

RunX == ScalarSum([i \in Parties |-> key_shares[i].secret_share], Parties)

\* What party i received in pre-signing Round 3 (in the stage "presigned").
Round3Received(i) ==
    [j \in Peers(i) |->
        [delta |-> IF tamper.round = "presigning3" /\ tamper.party = j
                   THEN tamper.value ELSE to_scalar(rounds[j].delta),
         big_delta |-> rounds[j].big_delta]]

\* The s party i assembled in the signing round (in the stages "signed", "legacy_signed").
AssembledS(i) ==
    ScalarAdd(ScalarSum([j \in Peers(i) |->
                            IF tamper.round = "signing" /\ tamper.party = j
                            THEN tamper.value ELSE rounds[j].s_part],
                        Peers(i)),
              rounds[i].s_part)

\* C1: an honest run of pre-signing and signing, for every n >= 2, every message and
\* every choice of the random values, ends at every party with a signature (r, s)
\* that verifies against X and m: pre-signing gives every party its PresigningData,
\* and the signing round gives every party a verifying signature.
C1_HonestRunSigns ==
    tamper = NoTamper =>
        /\ stage = "presigned" => \A i \in Parties : results[i].kind = "success"
        /\ stage \in {"signed", "legacy_signed"} =>
              \A i \in Parties :
                  /\ results[i].kind = "signature"
                  /\ EcdsaVerifies(results[i].r, results[i].s, RunVerifyingKey, message)

\* C2: in an honest pre-signing run with k # 0 and gamma # 0 every party finishes
\* Round 3 with the same nonce, g * k^{-1}.
C2_NonceIsInverseOfK ==
    (stage = "presigned" /\ tamper = NoTamper /\ RunK # 0 /\ RunGamma # 0) =>
        \A i \in Parties :
            /\ results[i].kind = "success"
            /\ results[i].data.nonce = mul_by_generator(ScalarInvert(RunK).value)

C2_Witness ==
    /\ stage = "presigned"
    /\ tamper = NoTamper
    /\ num_parties = 3
    /\ RunK \notin {0, 1, CurveOrder - 1}
    /\ RunGamma # 0
    /\ \A i \in Parties : results[i].kind = "success"

\* C3: in an honest pre-signing run the product shares chi_i are additive shares of
\* k * x: their sum equals (sum of k_i) * (sum of x_i) in the scalar field.
C3_ProductSharesSumToKX ==
    (stage \in {"presigning3", "presigned"} /\ tamper = NoTamper) =>
        ScalarSum([i \in Parties |-> rounds[i].product_share], Parties)
            = ScalarMul(RunK, RunX)

C3_Witness ==
    /\ stage = "presigned"
    /\ tamper = NoTamper
    /\ num_parties = 3
    /\ ScalarMul(RunK, RunX) # 0
    /\ \E i \in Parties : \E j \in Peers(i) : rounds[i].round2_artefacts[j].beta_hat # 0
    /\ \A i \in Parties : results[i].kind = "success"
    /\ \A i \in Parties : results[i].data.product_share = rounds[i].product_share

\* C4: whenever the signing round's finalize (of either signing.rs) returns a
\* signature, the signature verifies against the verifying key and the message,
\* whatever s_part the peers broadcast.
C4_ReturnedSignatureVerifies ==
    stage \in {"signed", "legacy_signed"} =>
        \A i \in Parties :
            results[i].kind = "signature" =>
                EcdsaVerifies(results[i].r, results[i].s, RunVerifyingKey, message)

\* A peer broadcast an s_part of its own choosing and the receiver still assembled a
\* signature, which it returned.
C4_Witness ==
    /\ stage \in {"signed", "legacy_signed"}
    /\ tamper.round = "signing"
    /\ \E i \in Parties :
          /\ i # tamper.party
          /\ results[i].kind = "signature"
          /\ results[i].s = AssembledS(i)

\* C5: when the assembled (r, s) does not verify, the signing round's finalize (of
\* either signing.rs) returns the error value with the correctness proofs: an aff-g
\* proof for every ordered pair of other parties, a mul* proof and a dec proof for
\* every other party; it neither returns a signature nor aborts the process.
C5_FailedSignatureReturnsProofs ==
    stage \in {"signed", "legacy_signed"} =>
        \A i \in Parties :
            ~EcdsaVerifies(rounds[i].r, AssembledS(i), RunVerifyingKey, message) =>
                /\ results[i].kind = "proof"
                /\ DOMAIN results[i].proof.aff_g_proofs = Peers(i) \X Peers(i)
                /\ DOMAIN results[i].proof.mul_star_proofs = Peers(i)
                /\ DOMAIN results[i].proof.dec_proofs = Peers(i)

\* C6: pre-signing Round 3 finalize returns PresigningData (nonce = Gamma * delta^{-1},
\* own k_i, own chi_i) exactly when g * delta = Delta for the sums delta and Delta of
\* all parties' values; when g * delta # Delta it returns the proof-of-abort error.
C6_PresigningDataIffConsistent ==
    stage = "presigned" =>
        \A i \in Parties :
            LET delta == PresigningRound3_delta(rounds[i], Round3Received(i))
                big_delta == PresigningRound3_big_delta(rounds[i], Round3Received(i))
            IN  /\ (mul_by_generator(delta) = big_delta) <=> (results[i].kind = "success")
                /\ (mul_by_generator(delta) # big_delta) => (results[i].kind = "proof")
                /\ results[i].kind = "success" =>
                      /\ PointMul(results[i].data.nonce, delta) = rounds[i].big_gamma
                      /\ results[i].data.ephemeral_scalar_share
                            = rounds[i].context.ephemeral_scalar_share
                      /\ results[i].data.product_share = rounds[i].product_share

\* The sum of the share points of a seed or of a key share (or change).
SharePointSum(pks) == PointSum(pks, DOMAIN pks)

InputSharePoints ==
    IF ks_update.stage = "created"
    THEN ks_update.input.share_pk
    ELSE [k \in DOMAIN ks_update.input.public |-> ks_update.input.public[k].share_pk]

ChangeSharePoints ==
    [k \in DOMAIN ks_update.change.public |-> ks_update.change.public[k].share_pk]

\* C7: KeyShare::update, and KeyShare::new from a seed, keep the verifying key when
\* the change is over the same parties and its share points sum to the identity.
C7_UpdateKeepsVerifyingKey ==
    (/\ ks_update.stage \in {"updated", "created"}
     /\ Len(ChangeSharePoints) = Len(InputSharePoints)
     /\ SharePointSum(ChangeSharePoints) = IDENTITY) =>
        KeyShare_verifying_key_as_point(ks_update.output) = SharePointSum(InputSharePoints)

C7_Witness ==
    /\ ks_update.stage = "updated"
    /\ Len(ChangeSharePoints) = 3
    /\ Len(InputSharePoints) = 3
    /\ SharePointSum(ChangeSharePoints) = IDENTITY
    /\ \E k \in DOMAIN ChangeSharePoints : ChangeSharePoints[k] # IDENTITY
    /\ SharePointSum(InputSharePoints) # IDENTITY
    /\ KeyShare_verifying_key_as_point(ks_update.output) = SharePointSum(InputSharePoints)

\* The secret of a share, or of a change, matches its public entry at its own index.
AgreesAtOwnIndex(share) ==
    /\ share.index + 1 \in DOMAIN share.public
    /\ mul_by_generator(share.secret.share_sk) = share.public[share.index + 1].share_pk

\* C8: KeyShare::update adds the change's secret to the secret share and the change's
\* share point k to every share point k; when the share and the change each agree
\* at their (common) index, so does the updated share.
C8_UpdateAddsShares ==
    ks_update.stage = "updated" =>
        LET self == ks_update.input
            change == ks_update.change
            new == ks_update.output
        IN  /\ new.secret.share_sk = ScalarAdd(self.secret.share_sk, change.secret.share_sk)
            /\ \A k \in DOMAIN new.public :
                  new.public[k].share_pk
                      = PointAdd(self.public[k].share_pk, change.public[k].share_pk)
            /\ (/\ AgreesAtOwnIndex(self)
                /\ AgreesAtOwnIndex(change)
                /\ change.index = self.index) => AgreesAtOwnIndex(new)

C8_Witness ==
    /\ ks_update.stage = "updated"
    /\ AgreesAtOwnIndex(ks_update.input)
    /\ AgreesAtOwnIndex(ks_update.change)
    /\ ks_update.change.index = ks_update.input.index
    /\ ks_update.change.secret.share_sk # 0
    /\ ks_update.input.secret.share_sk # 0
    /\ Len(ks_update.output.public) = 3
    /\ AgreesAtOwnIndex(ks_update.output)

\* The public data party `from` opened in key-refresh Round 2 (in the stage "done").
OpenedData(from) ==
    LET echo == SentEcho(kr_session, 2, from,
                         KeyRefreshRound2_make_echo_broadcast(kr_session.rounds[from]))
        normal == SentNormal(kr_session, 2, from,
                             KeyRefreshRound2_make_normal_broadcast(kr_session.rounds[from]))
    IN  [cap_xs |-> normal.cap_xs, cap_ys |-> echo.cap_ys, cap_as |-> normal.cap_as,
         paillier_pk |-> normal.paillier_pk, rp_params |-> echo.rp_params,
         psi |-> normal.psi]

HashMatches(from) ==
    kr_session.cap_vs[from] = PublicData_hash(OpenedData(from), "sid", from)

Evidence(party, error) == [party |-> party, description |-> EvidenceDescription(error)]

\* C9: in key refresh, when a party's Round 1 hash differs from the hash of the data
\* it opens in Round 2, every honest party produces evidence "Round 2: the previously
\* sent hash does not match the public data." against that party (as the test
\* r2_hash_mismatch expects), and no honest party is blamed.
C9_HashMismatchEvidence ==
    kr_session.stage = "done" =>
        /\ \A from \in kr_session.ids :
              ~HashMatches(from) =>
                  \A id \in kr_session.ids \ {from, kr_session.misbehaving} :
                      kr_session.reports[id] =
                          {Evidence(from, "Round 2: the previously sent hash does not match the public data.")}
        /\ kr_session.behavior = "r2_hash_mismatch" =>
              check_evidence(kr_session, ExpectedDescription("r2_hash_mismatch"))
        /\ \A id \in kr_session.ids : \A e \in kr_session.reports[id] :
              e.party = kr_session.misbehaving

C9_Witness ==
    /\ kr_session.stage = "done"
    /\ Cardinality(kr_session.ids) = 3
    /\ ~HashMatches(kr_session.misbehaving)
    /\ \A id \in kr_session.ids \ {kr_session.misbehaving} :
          kr_session.reports[id] =
              {Evidence(kr_session.misbehaving, "Round 2: the previously sent hash does not match the public data.")}

\* The error a wrong id set in the opened maps is reported with: the first of the maps
\* X, Y, A that is not keyed by the participant ids.
WrongIdsError(from) ==
    IF DOMAIN OpenedData(from).cap_xs # kr_session.ids
    THEN "Round 2: wrong IDs in public shares map."
    ELSE IF DOMAIN OpenedData(from).cap_ys # kr_session.ids
    THEN "Round 2: wrong IDs in Elgamal keys map."
    ELSE IF DOMAIN OpenedData(from).cap_as # kr_session.ids
    THEN "Round 2: wrong IDs in Schnorr commitments map."
    ELSE "ok"

\* C10: in key-refresh Round 2 a sender whose map X, Y or A is not keyed by exactly
\* the participant ids (one id removed, the Round 1 hash adjusted to match) is
\* reported by the honest parties with "Round 2: wrong IDs in public shares map.",
\* "... Elgamal keys map." or "... Schnorr commitments map.", against that sender,
\* as the tests r2_wrong_ids_x, r2_wrong_ids_y and r2_wrong_ids_a expect.
C10_WrongIdsEvidence ==
    kr_session.stage = "done" =>
        /\ \A from \in kr_session.ids :
              (HashMatches(from) /\ WrongIdsError(from) # "ok") =>
                  \A id \in kr_session.ids \ {from, kr_session.misbehaving} :
                      kr_session.reports[id] = {Evidence(from, WrongIdsError(from))}
        /\ kr_session.behavior = "r2_wrong_ids_x" =>
              /\ WrongIdsError(kr_session.misbehaving)
                    = "Round 2: wrong IDs in public shares map."
              /\ check_evidence(kr_session, ExpectedDescription("r2_wrong_ids_x"))
        /\ kr_session.behavior = "r2_wrong_ids_y" =>
              /\ WrongIdsError(kr_session.misbehaving)
                    = "Round 2: wrong IDs in Elgamal keys map."
              /\ check_evidence(kr_session, ExpectedDescription("r2_wrong_ids_y"))
        /\ kr_session.behavior = "r2_wrong_ids_a" =>
              /\ WrongIdsError(kr_session.misbehaving)
                    = "Round 2: wrong IDs in Schnorr commitments map."
              /\ check_evidence(kr_session, ExpectedDescription("r2_wrong_ids_a"))

C10_Witness ==
    /\ kr_session.stage = "done"
    /\ Cardinality(kr_session.ids) = 3
    /\ kr_session.behavior = "r2_wrong_ids_a"
    /\ HashMatches(kr_session.misbehaving)
    /\ DOMAIN OpenedData(kr_session.misbehaving).cap_as # kr_session.ids
    /\ \A id \in kr_session.ids \ {kr_session.misbehaving} :
          kr_session.reports[id] =
              {Evidence(kr_session.misbehaving,
                        "Round 2: wrong IDs in Schnorr commitments map.")}

\* The honest parties' reports of `from` are exactly the evidence `error`.
ReportedWith(from, error) ==
    \A id \in kr_session.ids \ {from, kr_session.misbehaving} :
        kr_session.reports[id] = {Evidence(from, error)}

\* The data `from` opened passes the Round 2 checks made before the modulus checks.
PassesUpToSum(from) ==
    /\ HashMatches(from)
    /\ WrongIdsError(from) = "ok"
    /\ PointSum(OpenedData(from).cap_xs, kr_session.ids) = IDENTITY

\* C11: in key-refresh Round 2 a sender whose Paillier modulus has fewer than
\* 2*PRIME_BITS bits is reported with "Round 2: Paillier modulus is too small.", a
\* sender whose ring-Pedersen modulus has fewer than 2*PRIME_BITS bits is reported with
\* "Round 2: ring-Pedersen modulus is too small.", and a modulus of at least
\* 2*PRIME_BITS bits passes the two checks.
C11_SmallModulusEvidence ==
    kr_session.stage = "done" =>
        \A from \in kr_session.ids :
            PassesUpToSum(from) =>
                LET paillier_bits == OpenedData(from).paillier_pk.modulus_bits
                    rp_bits == OpenedData(from).rp_params.modulus_bits
                IN  /\ paillier_bits < 2 * PRIME_BITS =>
                          ReportedWith(from, "Round 2: Paillier modulus is too small.")
                    /\ (paillier_bits >= 2 * PRIME_BITS /\ rp_bits < 2 * PRIME_BITS) =>
                          ReportedWith(from, "Round 2: ring-Pedersen modulus is too small.")
                    /\ (paillier_bits >= 2 * PRIME_BITS /\ rp_bits >= 2 * PRIME_BITS) =>
                          \A id \in kr_session.ids : \A e \in kr_session.reports[id] :
                              e.party = from =>
                                  e.description \notin
                                      {EvidenceDescription("Round 2: Paillier modulus is too small."),
                                       EvidenceDescription("Round 2: ring-Pedersen modulus is too small."),
                                       EvidenceDescription("Round 2: ring-Pedersent modulus is too small.")}

\* C12: in key-refresh Round 2 a sender whose published share changes X_j do not sum
\* to the identity (the id sets right, the Round 1 hash matching) is reported by the
\* honest parties with "Round 2: sum of share changes is not zero.", against that
\* sender, as the test r2_non_zero_sum_of_changes expects; a sender whose share
\* changes sum to the identity is not reported with it.
C12_NonZeroSumEvidence ==
    kr_session.stage = "done" =>
        /\ \A from \in kr_session.ids :
              (HashMatches(from) /\ WrongIdsError(from) = "ok") =>
                  IF PointSum(OpenedData(from).cap_xs, kr_session.ids) # IDENTITY
                  THEN ReportedWith(from, "Round 2: sum of share changes is not zero.")
                  ELSE \A id \in kr_session.ids :
                          Evidence(from, "Round 2: sum of share changes is not zero.")
                              \notin kr_session.reports[id]
        /\ (/\ kr_session.behavior = "r2_non_zero_sum_of_changes"
            /\ PointSum(OpenedData(kr_session.misbehaving).cap_xs, kr_session.ids)
                  # IDENTITY) =>
              check_evidence(kr_session, ExpectedDescription("r2_non_zero_sum_of_changes"))

C12_Witness ==
    /\ kr_session.stage = "done"
    /\ Cardinality(kr_session.ids) = 3
    /\ kr_session.behavior = "r2_non_zero_sum_of_changes"
    /\ HashMatches(kr_session.misbehaving)
    /\ PointSum(OpenedData(kr_session.misbehaving).cap_xs, kr_session.ids) # IDENTITY
    /\ ReportedWith(kr_session.misbehaving, "Round 2: sum of share changes is not zero.")
    /\ kr_session.reports[kr_session.misbehaving] = {}

\* Round 3 of the session has run.
Round3Ran == kr_session.stage = "done" /\ kr_session.round = 3

\* The Round 3 direct message `from` makes for `id` by the protocol, and the one sent.
HonestDirect(from, id) ==
    KeyRefreshRound3_make_direct_message(kr_session.rounds[from], id,
                                         OpenedData(id).cap_ys[from],
                                         OpenedData(id).rp_params)

DeliveredDirect(from, id) == SentDirect(kr_session, 3, from, id, HonestDirect(from, id))

\* The share change `id` recovers from the cap_c that `from` sent to it.
DeliveredShare(from, id) ==
    ScalarAdd(DeliveredDirect(from, id).cap_c,
              ScalarNeg(PointMul(OpenedData(from).cap_ys[id],
                                 kr_session.rounds[id].context.ys[from])))

\* C13: in key-refresh Round 3, when the cap_c of a direct message does not match the
\* public commitment X^i_j = g * x^i_j of the share change, its recipient produces the
\* evidence "Round 3: secret share change does not match the public commitment."
\* against the sender (as the test r3_share_change_mismatch expects of every
\* recipient), and a party whose messages all arrived as the protocol made them
\* produces no evidence.
C13_ShareChangeMismatchEvidence ==
    Round3Ran =>
        /\ \A id \in kr_session.ids : \A from \in kr_session.ids \ {id} :
              IF mul_by_generator(DeliveredShare(from, id)) # OpenedData(from).cap_xs[id]
              THEN kr_session.reports[id] =
                      {Evidence(from, "Round 3: secret share change does not match the public commitment.")}
              ELSE Evidence(from, "Round 3: secret share change does not match the public commitment.")
                      \notin kr_session.reports[id]
        /\ kr_session.behavior = "r3_share_change_mismatch" =>
              /\ \A id \in kr_session.ids :
                    (id \notin kr_session.targets
                        \/ DeliveredDirect(kr_session.misbehaving, id)
                              = HonestDirect(kr_session.misbehaving, id)) =>
                        kr_session.reports[id] = {}
              /\ (/\ kr_session.targets = kr_session.ids \ {kr_session.misbehaving}
                  /\ \A id \in kr_session.targets :
                        random_scalar(kr_session.rng_seed, id)
                            # HonestDirect(kr_session.misbehaving, id).cap_c) =>
                    check_evidence(kr_session,
                                   ExpectedDescription("r3_share_change_mismatch"))

C13_Witness ==
    /\ Round3Ran
    /\ Cardinality(kr_session.ids) = 3
    /\ kr_session.behavior = "r3_share_change_mismatch"
    /\ \E id \in kr_session.ids \ {kr_session.misbehaving} :
          /\ kr_session.targets = {id}
          /\ mul_by_generator(DeliveredShare(kr_session.misbehaving, id))
                # OpenedData(kr_session.misbehaving).cap_xs[id]
          /\ kr_session.reports[id] =
                {Evidence(kr_session.misbehaving, "Round 3: secret share change does not match the public commitment.")}
          /\ \A other \in kr_session.ids \ {id} : kr_session.reports[other] = {}

\* The tests of a failing proof.
ProofBehaviors ==
    {"r2_prm_failed", "r3_mod_failed", "r3_fac_failed", "r3_wrong_ids_hat_psi",
     "r3_sch_failed"}

\* C14: in key refresh each failing proof is reported against its sender with a
\* description of its own: a prm proof of other ring-Pedersen parameters (Round 2), a
\* mod proof of another Paillier key, a fac proof of another key and setup, a
\* Schnorr-proof map with an id missing ("Round 3: Wrong IDs in Schnorr proofs map.")
\* and a Schnorr proof of another secret (Round 3), as the tests r2_prm_failed,
\* r3_mod_failed, r3_fac_failed, r3_wrong_ids_hat_psi and r3_sch_failed expect; no
\* two of the five descriptions are the same.
C14_ProofFailureEvidence ==
    kr_session.stage = "done" =>
        /\ (/\ kr_session.behavior \in ProofBehaviors
            /\ kr_session.targets = kr_session.ids \ {kr_session.misbehaving}) =>
              /\ check_evidence(kr_session, ExpectedDescription(kr_session.behavior))
              /\ kr_session.round = IF kr_session.behavior = "r2_prm_failed" THEN 2 ELSE 3
        /\ \A b1, b2 \in ProofBehaviors :
              ExpectedDescription(b1) = ExpectedDescription(b2) => b1 = b2
        /\ \A from \in kr_session.ids :
              (kr_session.round = 2 /\ OpenedData(from).psi.rp_params # OpenedData(from).rp_params
                  /\ PassesUpToSum(from)
                  /\ OpenedData(from).paillier_pk.modulus_bits >= 2 * PRIME_BITS
                  /\ OpenedData(from).rp_params.modulus_bits >= 2 * PRIME_BITS) =>
                  ReportedWith(from, "Round 2: P^{prm} verification failed.")
        /\ ExpectedDescription("r3_wrong_ids_hat_psi")
              = EvidenceDescription("Round 3: Wrong IDs in Schnorr proofs map.")

C14_Witness ==
    /\ Round3Ran
    /\ Cardinality(kr_session.ids) = 3
    /\ kr_session.behavior = "r3_sch_failed"
    /\ kr_session.reports[kr_session.misbehaving] = {}
    /\ ReportedWith(kr_session.misbehaving, "Round 3: P^{sch} verification failed.")

\* C15: for every key-refresh round and every part of a message (echo broadcast,
\* normal broadcast, direct message), a part that does not parse, or that is there
\* where the round expects none, gives every receiver evidence against its sender, in
\* that round; Round 1 expects the echo broadcast only, Round 2 the echo and the
\* normal broadcast and no direct message, Round 3 all three parts.
C15_InvalidMessageEvidence ==
    /\ \A r \in 1 .. 3 : \A p \in MessageParts :
          \E c \in InvalidMessageChecks :
              c.round = r /\ c.part = p /\ (c.expecting <=> p \in ExpectedParts(r))
    /\ (kr_session.stage = "done" /\ kr_session.behavior = "invalid_messages") =>
          /\ kr_session.round = kr_session.check.round
          /\ kr_session.reports[kr_session.misbehaving] = {}
          /\ \A id \in kr_session.ids \ {kr_session.misbehaving} :
                kr_session.reports[id] =
                    {[party |-> kr_session.misbehaving,
                      description |-> InvalidMessageDescription(kr_session.check.part)]}
    /\ (kr_session.stage = "done" /\ kr_session.behavior = "honest") =>
          /\ kr_session.round = 3
          /\ \A id \in kr_session.ids : kr_session.reports[id] = {}

C15_Witness ==
    /\ kr_session.stage = "done"
    /\ Cardinality(kr_session.ids) = 3
    /\ kr_session.behavior = "invalid_messages"
    /\ kr_session.check = [round |-> 2, part |-> "direct_message", expecting |-> FALSE]
    /\ kr_session.round = 2
    /\ \A id \in kr_session.ids \ {kr_session.misbehaving} :
          kr_session.reports[id] =
              {[party |-> kr_session.misbehaving,
                description |-> InvalidMessageDescription("direct_message")]}

\* The three equations LogStarProof::verify checks, for the challenge e.
LogStarEquationsHold(proof, public, setup, e) ==
    /\ Ciphertext_new_with_randomizer(public.pk0, proof.z1, proof.z2)
          = Ciphertext_add(proof.cap_a, Ciphertext_mul(public.cap_c, e))
    /\ PointMul(public.g, to_scalar(proof.z1))
          = PointAdd(proof.cap_y, PointMul(public.cap_x, to_scalar(e)))
    /\ RPParams_commit(setup, proof.z1, proof.z3)
          = (proof.cap_d + proof.cap_s * e) % setup.order

\* The challenge stored in a log* proof is the one of its transcript.
LogStarChallengeMatches(proof, public, setup, aux) ==
    proof.e = log_star_challenge(proof.cap_s, proof.cap_a, proof.cap_y, proof.cap_d,
                                 public.pk0, public.cap_c, public.g, public.cap_x,
                                 setup, aux)

\* The witness of the proof is honest: within its range (the public inputs are made
\* of it), and the proof is the output of new.
HonestProof == sigma.stage = "verified" /\ sigma.honest

\* C16 as stated: for every honest witness in its range, every setup and every aux,
\* verify applied to the output of new, with the same public inputs, returns true,
\* for log* and for dec.
C16_HonestProofVerifies == HonestProof => sigma.verdict

\* C16, amended: verify accepts the output of new for an honest witness whenever the
\* response z1 = alpha + e * x of a log* proof stays within l + eps bits (the draws
\* of alpha within |e * x| of the end of its range give a proof that verify rejects);
\* a dec proof of new is always accepted.
C16_HonestProofVerifiesInRange ==
    HonestProof =>
        IF sigma.kind = "log_star"
        THEN sigma.verdict <=> in_range_bits(sigma.proof.z1, L_BOUND + EPS_BOUND)
        ELSE sigma.verdict

C16_Witness ==
    /\ HonestProof
    /\ sigma.kind = "log_star"
    /\ sigma.inputs.x = Pow2(L_BOUND) - 1
    /\ sigma.proof.e # 0
    /\ sigma.proof.z1 # sigma.inputs.x * sigma.proof.e
    /\ in_range_bits(sigma.proof.z1, L_BOUND + EPS_BOUND)
    /\ sigma.verdict

\* C17: LogStarProof::verify returns false for every proof whose response z1 is
\* outside the range of l + eps bits, also when the stored challenge matches and the
\* three equations hold.
C17_LogStarRangeChecked ==
    (sigma.stage = "verified" /\ sigma.kind = "log_star") =>
        (~in_range_bits(sigma.proof.z1, L_BOUND + EPS_BOUND) => ~sigma.verdict)

C17_Witness ==
    /\ sigma.stage = "verified"
    /\ sigma.kind = "log_star"
    /\ ~sigma.honest
    /\ ~in_range_bits(sigma.proof.z1, L_BOUND + EPS_BOUND)
    /\ LogStarChallengeMatches(sigma.proof, LogStarPublic(sigma.inputs),
                               sigma.inputs.setup, sigma.inputs.aux)
    /\ LogStarEquationsHold(sigma.proof, LogStarPublic(sigma.inputs), sigma.inputs.setup,
                            sigma.proof.e)
    /\ ~sigma.verdict

\* C18: DecProof::verify returns false for every proof in which some response z_j is
\* outside the range of l + eps bits or some response w_j is outside the range of
\* l' + eps bits, also when the stored challenge matches and the equations hold.
C18_DecRangeChecked ==
    (sigma.stage = "verified" /\ sigma.kind = "dec") =>
        ((\E j \in 1 .. Len(sigma.proof.elements) :
              \/ ~in_range_bits(sigma.proof.elements[j].z, L_BOUND + EPS_BOUND)
              \/ ~in_range_bits(sigma.proof.elements[j].w, LP_BOUND + EPS_BOUND))
            => ~sigma.verdict)

\* The value of big-endian bytes; -1 when it is beyond any length of the model.
from_be_bytes(bytes) ==
    IF \E i \in 1 .. Len(bytes) - 2 : bytes[i] # 0 THEN 0 - 1
    ELSE bytes[Len(bytes) - 1] * 256 + bytes[Len(bytes)]

\* What is read back when a stream is not a sequence of lengths and byte strings.
Malformed == << <<0 - 1>> >>

\* The byte strings read back from an absorbed stream: a length, that many bytes, and
\* so on to the end of the stream.
RECURSIVE ParseStream(_)
ParseStream(stream) ==
    IF stream = << >> THEN << >>
    ELSE IF Len(stream) < 8 THEN Malformed
    ELSE LET n == from_be_bytes(SubSeq(stream, 1, 8))
         IN  IF n < 0 \/ Len(stream) < 8 + n THEN Malformed
             ELSE LET rest == ParseStream(SubSeq(stream, 9 + n, Len(stream)))
                  IN  IF rest = Malformed THEN Malformed
                      ELSE <<SubSeq(stream, 9, 8 + n)>> \o rest

\* The stream absorbed by a fresh hasher after chain_bytes of each byte string in turn.
RECURSIVE StreamOf(_)
StreamOf(strings) ==
    IF strings = << >> THEN XofHasher_new
    ELSE chain_bytes(StreamOf(SubSeq(strings, 1, Len(strings) - 1)),
                     strings[Len(strings)])

\* The byte strings concatenated.
RECURSIVE Flatten(_)
Flatten(strings) ==
    IF strings = << >> THEN << >> ELSE Head(strings) \o Flatten(Tail(strings))

\* The byte strings a hasher was given: the tag of new_with_dst, then those chained.
GivenStrings == (IF hasher.with_dst THEN <<hasher.dst>> ELSE << >>) \o hasher.chained

\* The sequences of byte strings that concatenate to the same bytes as the given ones
\* but are cut at one other place.
RegroupedStrings ==
    LET flat == Flatten(GivenStrings)
    IN  {<<SubSeq(flat, 1, i), SubSeq(flat, i + 1, Len(flat))>> : i \in 0 .. Len(flat)}
            \ {GivenStrings}

\* C19: the stream absorbed by a sequence of chain_bytes calls is each string's 8-byte
\* big-endian length followed by its bytes, so the sequence of byte strings is read
\* back from the stream, and no other grouping of the same bytes gives the same
\* stream; the stream of new_with_dst(tag) is that of a fresh hasher after
\* chain_bytes(tag).
C19_StreamDeterminesStrings ==
    hasher.stage = "chaining" =>
        /\ hasher.absorbed = StreamOf(GivenStrings)
        /\ ParseStream(hasher.absorbed) = GivenStrings
        /\ Len(hasher.absorbed) = 8 * Len(GivenStrings) + Len(Flatten(GivenStrings))
        /\ \A other \in RegroupedStrings : StreamOf(other) # hasher.absorbed

C19_Witness ==
    /\ hasher.stage = "chaining"
    /\ ~hasher.with_dst
    /\ hasher.chained = << <<65, 66>>, <<67, 68>> >>
    /\ << <<65, 66, 67>>, <<68>> >> \in RegroupedStrings
    /\ hasher.absorbed = <<0, 0, 0, 0, 0, 0, 0, 2, 65, 66, 0, 0, 0, 0, 0, 0, 0, 2, 67, 68>>
    /\ StreamOf(<< <<65, 66, 67>>, <<68>> >>) # hasher.absorbed

\* C20: every Bounded reached through Bounded::new, deserialization from PackedBounded,
\* add_mod, into_wide, mul_wide, checked_add, checked_mul and conditional_select has
\* value.bits() <= bound <= BITS of its type, and Bounded::new returns a value exactly
\* when bound <= T::BITS and value.bits() <= bound.
C20_BoundedInvariant ==
    /\ bounded.stage = "value" =>
          /\ bits(bounded.val.value) <= bounded.val.bound
          /\ bounded.val.bound <= bounded.val.type_bits
    /\ (bounded.stage \in {"value", "none"} /\ bounded.last = "new") =>
          (bounded.stage = "value"
              <=> (bounded.input.bound <= BITS
                   /\ bits(bounded.input.value) <= bounded.input.bound))

\* C21: whenever checked_add yields a value its bound is max(b1, b2) + 1 and its value
\* the exact integer sum; whenever checked_mul yields a value its bound is b1 + b2 and
\* its value the exact integer product; mul_wide always yields the exact product in the
\* wide type with bound b1 + b2.
C21_BoundedArithmeticExact ==
    /\ (bounded.stage = "value" /\ bounded.last = "checked_add") =>
          /\ bounded.val.bound = Max(bounded.args[1].bound, bounded.args[2].bound) + 1
          /\ bounded.val.value = bounded.args[1].value + bounded.args[2].value
    /\ (bounded.stage = "value" /\ bounded.last = "checked_mul") =>
          /\ bounded.val.bound = bounded.args[1].bound + bounded.args[2].bound
          /\ bounded.val.value = bounded.args[1].value * bounded.args[2].value
    /\ bounded.last = "mul_wide" =>
          /\ bounded.stage = "value"
          /\ bounded.val.type_bits = 2 * bounded.args[1].type_bits
          /\ bounded.val.bound = bounded.args[1].bound + bounded.args[2].bound
          /\ bounded.val.value = bounded.args[1].value * bounded.args[2].value

\* The number of parties and the party index handed to FirstRound::new are those of
\* the key share.
ConsistentWithKeyShare ==
    LET key_share == ContextKeyShare(machine.protocol, machine.context)
    IN  /\ machine.num_parties = ks_num_parties(key_share)
        /\ machine.party_idx = key_share.index

\* C22: the first round of pre-signing or of signing created with a (num_parties,
\* party_idx) that is inconsistent with the key share is reported as an initialization
\* error instead of producing a round.
C22_InconsistentInitRejected ==
    (machine.stage = "created" /\ ~ConsistentWithKeyShare) =>
        machine.outcome.kind = "init_error"

\* The names of the variants of AuxiliaryStage and of the rounds of interactive signing,
\* in their order.
AuxiliaryStageNames == [k \in DOMAIN AuxiliaryStages |-> AuxiliaryStages[k].name]

InteractiveRoundNames == [k \in DOMAIN InteractiveRounds |-> InteractiveRounds[k].name]

\* The flag of a round of one of the protocols.
RequiresConsensus(protocol, round_num) ==
    CASE protocol = "key_refresh" -> auxiliary_requires_consensus(round_num)
      [] protocol = "presigning" -> presigning_REQUIRES_CONSENSUS(round_num)
      [] protocol = "signing" -> signing_REQUIRES_CONSENSUS

\* C23: the rounds that require echo-broadcast consensus are exactly key-refresh Round 1
\* and Round 2 and pre-signing Round 1; pre-signing Rounds 2 and 3 and signing Round 1
\* do not, and each round of interactive signing reports the flag of the round it wraps.
C23_ConsensusRounds ==
    /\ \A protocol \in {"key_refresh", "presigning", "signing"} :
       \A round_num \in 1 .. (IF protocol = "signing" THEN 1 ELSE 3) :
          RequiresConsensus(protocol, round_num)
              <=> <<protocol, round_num>>
                      \in {<<"key_refresh", 1>>, <<"key_refresh", 2>>, <<"presigning", 1>>}
    /\ (machine.stage = "running" /\ machine.protocol = "interactive_signing") =>
          InteractiveSigning_requires_broadcast_consensus(machine.state.name)
              = Wrapped_requires_broadcast_consensus(
                    InteractiveRounds[Len(machine.visited)].wraps)

\* C24: finalize_stage applied to an AuxiliaryState in any of its variants, Result
\* included, returns a successor state.
C24_FinalizeStageTotal ==
    machine.protocol = "auxiliary" => machine.last # Panic

\* C25: from AuxiliaryState::new the finalize_stage calls visit Round1, Round1Consensus,
\* Round2, Round3, Result in this order, none skipped or revisited; current_stage_num is
\* 1, 2, 3, 4 in the four stages before Result and never above stages_num() = 4;
\* is_final_stage holds exactly in Result, reached after exactly four calls, and result()
\* yields the KeyShareChange exactly then.
C25_AuxiliaryStageOrder ==
    (machine.stage = "running" /\ machine.protocol = "auxiliary") =>
        LET state == machine.state
            num == AuxiliaryState_current_stage_num(state)
        IN  /\ Len(machine.visited) = machine.calls + 1
            /\ machine.visited = SubSeq(AuxiliaryStageNames, 1, Len(machine.visited))
            /\ state.stage = machine.visited[Len(machine.visited)]
            /\ state.stage # "Result" =>
                  /\ num.kind = "ok"
                  /\ num.value = machine.calls + 1
            /\ num.kind = "ok" => num.value <= AuxiliaryState_stages_num(state)
            /\ AuxiliaryState_is_final_stage(state) <=> state.stage = "Result"
            /\ AuxiliaryState_is_final_stage(state) <=> machine.calls = 4
            /\ AuxiliaryState_result(state).kind = "ok" <=> machine.calls = 4
            /\ AuxiliaryState_result(state).kind = "ok" =>
                  AuxiliaryState_result(state).value[1] = "KeyShareChange"

C25_Witness ==
    /\ machine.stage = "running"
    /\ machine.protocol = "auxiliary"
    /\ machine.calls = 4
    /\ machine.visited = <<"Round1", "Round1Consensus", "Round2", "Round3", "Result">>
    /\ AuxiliaryState_is_final_stage(machine.state)
    /\ AuxiliaryState_result(machine.state).kind = "ok"

\* C26: interactive signing visits Round1Part1 (1), Round1Part2 (2), Round2 (3), Round3
\* (4), SigningRound (5) in this order: the next_round_num of a round is the round_num of
\* the round its finalize produces and is None only for round 5; finalize of rounds 1 to
\* 4 yields no Result and finalize of round 5 no other round, no unreachable arm being
\* taken; an error of the wrapped round's finalize is returned and no round is created.
C26_InteractiveRoundOrder ==
    machine.protocol = "interactive_signing" =>
        /\ machine.stage # "panicked"
        /\ machine.visited = SubSeq(InteractiveRoundNames, 1, Len(machine.visited))
        /\ machine.state.name = machine.visited[Len(machine.visited)]
        /\ InteractiveSigning_round_num(machine.state.name) = Len(machine.visited)
        /\ \A k \in 1 .. (Len(machine.visited) - 1) :
              InteractiveSigning_next_round_num(machine.visited[k])
                  = InteractiveSigning_round_num(machine.visited[k + 1])
        /\ \A k \in DOMAIN InteractiveRoundNames :
              InteractiveSigning_next_round_num(InteractiveRoundNames[k]) = 0 <=> k = 5
        /\ machine.last.kind = "Result" =>
              /\ InteractiveSigning_round_num(machine.state.name) = 5
              /\ machine.last.value = machine.last.wrapped.value
        /\ machine.last.kind = "AnotherRound" =>
              /\ Len(machine.visited) = machine.calls + 1
              /\ machine.last.wrapped.kind # "Err"
        /\ (machine.last.kind # "none" /\ machine.last.wrapped.kind = "Err") =>
              /\ machine.stage = "failed"
              /\ machine.last.kind = "Err"
              /\ machine.last.value = machine.last.wrapped.value
              /\ Len(machine.visited) = machine.calls

C26_Witness ==
    /\ machine.protocol = "interactive_signing"
    /\ machine.stage = "failed"
    /\ machine.visited = <<"Round1Part1", "Round1Part2", "Round2", "Round3">>
    /\ machine.last.wrapped = [kind |-> "Err", value |-> "Provable"]
    /\ machine.last.value = "Provable"
    /\ machine.calls = 4

\* The first of the Round 2 checks after the hash check that the data `from` opened
\* fails ("ok" when none does): the checks applied with the hash of the opened data.
LaterCheckError(from) ==
    LET data == OpenedData(from)
    IN  KeyRefreshRound2_receive_message(kr_session.rounds[from], from,
            PublicData_hash(data, "sid", from),
            [cap_ys |-> data.cap_ys, rp_params |-> data.rp_params],
            [cap_xs |-> data.cap_xs, cap_as |-> data.cap_as,
             paillier_pk |-> data.paillier_pk, psi |-> data.psi])

\* The descriptions of the Round 2 checks that come after the hash check.
LaterCheckDescriptions ==
    {EvidenceDescription(e) : e \in
        {"Round 2: wrong IDs in public shares map.",
         "Round 2: wrong IDs in Elgamal keys map.",
         "Round 2: wrong IDs in Schnorr commitments map.",
         "Round 2: sum of share changes is not zero.",
         "Round 2: Paillier modulus is too small.",
         "Round 2: ring-Pedersent modulus is too small.",
         "Round 2: P^{prm} verification failed."}}

\* C27: in key refresh Round 2 the hash check comes before every other check: a sender
\* whose opened data fails both the hash check against its Round 1 hash and a later
\* check (wrong id set, small modulus, non-zero sum, failing prm proof) is reported by
\* every honest party with the hash mismatch alone, and a party is reported with a
\* later check's description only when its hash matches, as the overrides of the tests
\* r2_wrong_ids_x and r2_paillier_modulus_too_small, which adjust the Round 1 hash to
\* the data they open, are.
C27_HashCheckedFirst ==
    kr_session.stage = "done" =>
        \A from \in kr_session.ids :
            /\ (~HashMatches(from) /\ LaterCheckError(from) # "ok") =>
                  \A id \in kr_session.ids \ {from, kr_session.misbehaving} :
                      kr_session.reports[id] =
                          {[party |-> from,
                            description |-> ExpectedDescription("r2_hash_mismatch")]}
            /\ \A id \in kr_session.ids : \A e \in kr_session.reports[id] :
                  (e.party = from /\ e.description \in LaterCheckDescriptions) =>
                      /\ HashMatches(from)
                      /\ e.description = EvidenceDescription(LaterCheckError(from))
            /\ (/\ from = kr_session.misbehaving
                /\ kr_session.behavior \in {"r2_wrong_ids_x", "r2_paillier_modulus_too_small"}) =>
                    /\ HashMatches(from)
                    /\ check_evidence(kr_session, ExpectedDescription(kr_session.behavior))

C27_Witness ==
    /\ kr_session.stage = "done"
    /\ kr_session.behavior = "uncommitted"
    /\ kr_session.opens = "r2_paillier_modulus_too_small"
    /\ ~HashMatches(kr_session.misbehaving)
    /\ LaterCheckError(kr_session.misbehaving) = "Round 2: Paillier modulus is too small."
    /\ \A id \in kr_session.ids \ {kr_session.misbehaving} :
          kr_session.reports[id] =
              {[party |-> kr_session.misbehaving,
                description |-> ExpectedDescription("r2_hash_mismatch")]}

\* The first sender of a misbehaving peer of party i, in index order.
FirstForger(i) ==
    CHOOSE j \in tamper.senders \cap Peers(i) :
        \A o \in tamper.senders \cap Peers(i) : j <= o

\* The Round 2 error of the first check the replaced parts make fail: psi is made for
\* the D the sender computed, so that a replaced D fails psi.
Round2Error(parts) ==
    IF parts \cap {"d", "psi"} # {} THEN "Round2: Failed to verify AffGProof (psi)"
    ELSE IF "psi_hat" \in parts THEN "Round2: Failed to verify AffGProof (psi_hat)"
    ELSE "Round2: Failed to verify LogStarProof"

ForgedRoundError ==
    CASE tamper.round = "presigning1" -> "Round1: Failed to verify EncProof"
      [] tamper.round = "presigning2" -> Round2Error(tamper.parts)
      [] tamper.round = "presigning3" -> "Round3: Failed to verify Log-Star proof"

\* C28: in pre-signing a failed proof is reported as a provable error that names the
\* round and blames the sender: a party that received proofs which do not verify ends
\* Round 1, 2 or 3 with Provable{party = the first such sender in index order} and the
\* error of that round; in Round 2 the error is that of the first failing proof in
\* the order psi, psi_hat, psi_hat_prime, also when D would not decrypt to a value
\* within the asserted bound; and a party goes on to the next round or to a result
\* only when every proof it received verified.
C28_FailedProofsProvable ==
    /\ (stage \in {"aborted", "presigned"} /\ tamper.round # "none") =>
          \A i \in Parties :
              IF tamper.senders \cap Peers(i) # {}
              THEN results[i] = [kind |-> "provable", party |-> FirstForger(i),
                                 error |-> ForgedRoundError]
              ELSE results[i].kind # "provable"
    /\ (stage \in {"presigning2", "presigning3"} /\ tamper.round # "none") =>
          tamper.senders = {}

C28_Witness ==
    /\ stage = "aborted"
    /\ num_parties = 3
    /\ tamper.round = "presigning2"
    /\ tamper.senders = {1, 2}
    /\ tamper.parts = {"psi_hat", "psi_hat_prime"}
    /\ results[0] = [kind |-> "provable", party |-> 1,
                     error |-> "Round2: Failed to verify AffGProof (psi_hat)"]
    /\ results[1] = [kind |-> "provable", party |-> 2,
                     error |-> "Round2: Failed to verify AffGProof (psi_hat)"]

\* C29: in the abort branch of pre-signing Round 3 finalize (g * delta # Delta) the
\* self-check assertions hold, the mul proof verifying against (K_i, G_i, H_i) and every
\* dec proof against (delta_i, H_i + sum_j (D_ij + F_ij)), so that the branch always
\* ends by returning FinalizeError::Proof with (n-1)^2 aff-g proofs, one mul proof and
\* n-1 dec proofs.
C29_AbortReturnsProofs ==
    stage = "presigned" =>
        \A i \in Parties :
            LET delta == PresigningRound3_delta(rounds[i], Round3Received(i))
                big_delta == PresigningRound3_big_delta(rounds[i], Round3Received(i))
            IN  (mul_by_generator(delta) # big_delta) =>
                    /\ results[i].kind = "proof"
                    /\ Cardinality(DOMAIN results[i].proof.aff_g_proofs)
                          = (num_parties - 1) * (num_parties - 1)
                    /\ results[i].proof.mul_proof.cap_x.plaintext
                          = rounds[i].k_ciphertexts[i]
                    /\ Cardinality(DOMAIN results[i].proof.dec_proofs) = num_parties - 1

\* The pre-signing rounds 1 and 2 of party i, as the run made them.
Round1Of(i) == PresigningRound1_new(rng[i], i, key_shares[i])

Round2Of(i) ==
    PresigningRound1_finalize_to_next_round(
        Round1Of(i),
        [j \in Peers(i) |-> PresigningRound1_make_broadcast(Round1Of(j))],
        [j \in Peers(i) |-> PresigningRound1_make_direct_message(Round1Of(j), i)]).round

\* The payloads party i has of its peers in pre-signing Round 2 and Round 3 and in the
\* signing round, and its Round 2 artefacts.
Round2Payloads(i) ==
    [j \in Peers(i) |->
        PresigningRound2_verify_direct_message(
            Round2Of(i), j, PresigningRound2_make_direct_message(Round2Of(j), i).msg).payload]

Round2Artefacts(i) ==
    [j \in Peers(i) |-> PresigningRound2_make_direct_message(Round2Of(i), j).artefact]

Round3Payloads(i) ==
    [j \in Peers(i) |->
        PresigningRound3_verify_direct_message(
            rounds[i], j, PresigningRound3_make_direct_message(rounds[j], i)).payload]

SigningPayloads(i) ==
    [j \in Peers(i) |->
        SigningRound1_verify_broadcast(rounds[i], j, SigningRound1_make_broadcast(rounds[j]))]

\* C30: the outcome of a round's finalize does not depend on the order in which the
\* peers' messages arrived: whatever the order of the run was, for every order of
\* arrival the sums that pre-signing Round 2 finalize takes over the payloads give the
\* Gamma, delta_i and chi_i of the run, those of pre-signing Round 3 finalize its
\* delta, Delta and result, and that of the signing finalize its s and result.
C30_ArrivalOrderIrrelevant ==
    /\ (stage = "presigning3" /\ tamper.round = "presigning2") =>
          \A i \in Parties : \A order \in OrdersOf(Peers(i)) :
              LET next == PresigningRound2_finalize_iterating(
                              Round2Of(i), HoleVec_of(Round2Payloads(i), order),
                              Round2Artefacts(i), order)
              IN  /\ next.big_gamma = rounds[i].big_gamma
                  /\ next.delta = rounds[i].delta
                  /\ next.product_share = rounds[i].product_share
                  /\ next = rounds[i]
    /\ (stage = "presigned" /\ tamper.round = "presigning3") =>
          \A i \in Parties : \A order \in OrdersOf(Peers(i)) :
              LET payloads == HoleVec_of(Round3Payloads(i), order)
                  arrived == HoleVec_of(Round3Payloads(i), tamper.order[i])
              IN  /\ PresigningRound3_delta_iterating(rounds[i], payloads, order)
                        = PresigningRound3_delta_iterating(rounds[i], arrived,
                                                           tamper.order[i])
                  /\ PresigningRound3_big_delta_iterating(rounds[i], payloads, order)
                        = PresigningRound3_big_delta_iterating(rounds[i], arrived,
                                                               tamper.order[i])
                  /\ PresigningRound3_finalize_iterating(rounds[i], payloads, order)
                        = results[i]
    /\ (stage = "signed" /\ tamper.round = "signing") =>
          \A i \in Parties : \A order \in OrdersOf(Peers(i)) :
              LET shares == HoleVec_of(SigningPayloads(i), order)
              IN  /\ SigningRound1_s_iterating(rounds[i], shares, order)
                        = SigningRound1_s_iterating(
                              rounds[i], HoleVec_of(SigningPayloads(i), tamper.order[i]),
                              tamper.order[i])
                  /\ SigningRound1_finalize_iterating(rounds[i], shares, order) = results[i]

C30_Witness ==
    /\ stage = "presigning3"
    /\ num_parties = 3
    /\ tamper.round = "presigning2"
    /\ tamper.order[0] = <<2, 1>>
    /\ Round2Payloads(0)[1].gamma # Round2Payloads(0)[2].gamma
    /\ Round2Payloads(0)[1].alpha # Round2Payloads(0)[2].alpha
    /\ Round2Payloads(0)[1].alpha_hat # Round2Payloads(0)[2].alpha_hat
    /\ rounds[0] = PresigningRound2_finalize_iterating(
                        Round2Of(0), HoleVec_of(Round2Payloads(0), <<1, 2>>),
                        Round2Artefacts(0), <<1, 2>>)

\* Exponentiation: what the properties compare the results with.

Invertible(v, modulus) == Monty_invert(v, modulus).is_some

\* base multiplied exponent times.
RECURSIVE RepeatedProduct(_, _, _)
RepeatedProduct(base, exponent, modulus) ==
    IF exponent = 0 THEN 1 % modulus
    ELSE (base * RepeatedProduct(base, exponent - 1, modulus)) % modulus

Negated(e) == [e EXCEPT !.is_negative = (e.abs # 0 /\ ~e.is_negative)]

PowDone(call) == power.stage = "done" /\ power.call = call

PowInvertible == Invertible(power.uint, power.modulus)

\* b^e for the signed exponent e of the state, from b^|e|: the inverse for e < 0.
SignedPowerOf(abs_power) ==
    IF power.exponent.is_negative THEN Monty_invert(abs_power, power.modulus).value
    ELSE abs_power

\* C31: for an invertible base and a signed exponent within its bound, pow_signed
\* returns base^|e| for e >= 0 and its inverse for e < 0, and its product with the
\* result for the negated exponent is 1.
C31_PowSignedIsPower ==
    (PowDone("pow_signed") /\ PowInvertible) =>
        LET abs_power == RepeatedProduct(power.uint, power.exponent.abs, power.modulus)
            negated == pow_signed(power.uint, Negated(power.exponent), power.modulus)
        IN  /\ power.result.kind = "value"
            /\ ~power.exponent.is_negative => power.result.value = abs_power
            /\ power.exponent.is_negative =>
                  (power.result.value * abs_power) % power.modulus = 1 % power.modulus
            /\ negated.kind = "value"
            /\ (power.result.value * negated.value) % power.modulus = 1 % power.modulus

C31_Witness ==
    /\ PowDone("pow_signed") /\ PowInvertible
    /\ power.exponent.is_negative /\ power.exponent.abs > 2
    /\ power.result.kind = "value" /\ power.result.value > 1
    /\ power.result.value # RepeatedProduct(power.uint, power.exponent.abs, power.modulus)

\* The width of a chunk of the exponent of the call of the state.
ChunkBits == IF power.call = "pow_signed_extra_wide" THEN 2 * PowBits ELSE PowBits

\* C32: for an invertible base and a signed exponent with |e| < 2^bound, the wide
\* and the extra-wide function return base^e, which is (base^hi)^(2^chunk) * base^lo
\* for the chunks of |e|, and on exponents of the narrow type they return what
\* pow_signed returns.
C32_WidePowersArePowers ==
    ((PowDone("pow_signed_wide") \/ PowDone("pow_signed_extra_wide")) /\ PowInvertible) =>
        LET parts == from_wide(power.exponent.abs, ChunkBits)
            hi_power == ModPow(power.uint, parts.hi, power.modulus)
            lo_power == ModPow(power.uint, parts.lo, power.modulus)
            chunked == (ModPow(hi_power, Pow2(ChunkBits), power.modulus) * lo_power)
                           % power.modulus
        IN  /\ power.result.kind = "value"
            /\ power.result.value =
                  SignedPowerOf(ModPow(power.uint, power.exponent.abs, power.modulus))
            /\ power.result.value = SignedPowerOf(chunked)
            /\ power.width = "narrow" =>
                  /\ power.result.value =
                        pow_signed(power.uint, power.exponent, power.modulus).value
                  /\ power.result.value =
                        SignedPowerOf(RepeatedProduct(power.uint, power.exponent.abs,
                                                      power.modulus))

C32_Witness ==
    /\ PowDone("pow_signed_extra_wide") /\ PowInvertible
    /\ power.exponent.bound > 2 * PowBits
    /\ from_wide(power.exponent.abs, 2 * PowBits).hi > 0
    /\ from_wide(power.exponent.abs, 2 * PowBits).lo > 0
    /\ power.exponent.is_negative
    /\ power.result.kind = "value" /\ power.result.value > 1
    /\ Len(power.result.calls) = 4

\* C33: whatever bound is passed in, every call of pow_bounded_exp gets a number of
\* bits to iterate over that is neither negative nor above the width of the exponent
\* chunk it is given.
C33_IterationBoundsInRange ==
    power.stage = "done" =>
        \A k \in 1 .. Len(power.result.calls) :
            /\ power.result.calls[k].exponent_bits >= 0
            /\ power.result.calls[k].exponent_bits <= power.result.calls[k].width

C33_Witness ==
    /\ PowDone("pow_wide")
    /\ power.exponent.bound > 2 * PowBits + 1
    /\ Len(power.result.calls) = 2
    /\ power.result.calls[2].exponent_bits > 0

\* C34: for an invertible base, pow_signed_vartime returns what pow_signed returns
\* for the same base and signed exponent.
C34_VartimeAgrees ==
    (PowDone("pow_signed_vartime") /\ PowInvertible) =>
        LET constant_time == pow_signed(power.uint, power.exponent, power.modulus)
        IN  /\ power.result.kind = "value"
            /\ constant_time.kind = "value"
            /\ power.result.value = constant_time.value

C34_Witness ==
    /\ PowDone("pow_signed_vartime") /\ PowInvertible
    /\ power.exponent.is_negative
    /\ power.result.kind = "value" /\ power.result.value > 1
    /\ power.result.value # RepeatedProduct(power.uint, power.exponent.abs, power.modulus)

\* The integer a big-endian byte string denotes.
RECURSIVE BigEndianValue(_)
BigEndianValue(bytes) ==
    IF bytes = << >> THEN 0
    ELSE bytes[1] * (256 ^ (Len(bytes) - 1)) + BigEndianValue(Tail(bytes))

ValidBounded(val) == bits(val.value) <= val.bound /\ val.bound <= val.type_bits

\* C35: a valid Bounded is packed as its bound and the ceil(bound / 8) low-order
\* big-endian bytes of its value, and reading the packed form back returns the same
\* value and bound; reading rejects a byte string longer than the integer and every
\* (value, bound) with bound > T::BITS or value.bits() > bound.
C35_PackedRoundTrip ==
    /\ (bounded.last = "round_trip" /\ ValidBounded(bounded.args[1])) =>
          LET packed == PackedBounded_from(bounded.args[1])
          IN  /\ packed.bound = bounded.args[1].bound
              /\ Len(packed.bytes) * 8 >= packed.bound
              /\ Len(packed.bytes) * 8 < packed.bound + 8
              /\ BigEndianValue(packed.bytes) = bounded.args[1].value
              /\ bounded.stage = "value"
              /\ bounded.val = bounded.args[1]
    /\ bounded.last = "try_from" =>
          LET packed == bounded.args[1]
              type_bits == bounded.args[2]
          IN  /\ (\/ Len(packed.bytes) * 8 > type_bits
                  \/ packed.bound > type_bits
                  \/ bits(BigEndianValue(packed.bytes)) > packed.bound)
                    => bounded.stage = "none"
              /\ bounded.stage = "value" =>
                    /\ bounded.val.value = BigEndianValue(packed.bytes)
                    /\ bounded.val.bound = packed.bound

C35_Witness ==
    /\ bounded.last = "round_trip" /\ ValidBounded(bounded.args[1])
    /\ bounded.args[1].type_bits = 2 * BITS
    /\ bounded.args[1].value > 1
    /\ Len(PackedBounded_from(bounded.args[1]).bytes) = 1
    /\ bounded.stage = "value"

\* The transcript of a proof under a statement.
LogStarTranscriptOf(proof, statement) ==
    log_star_transcript(proof.cap_s, proof.cap_a, proof.cap_y, proof.cap_d,
                        statement.pk0, statement.cap_c, statement.g, statement.cap_x,
                        statement.setup, statement.aux)

LogStarMutated == sigma.stage = "mutated" /\ sigma.kind = "log_star"

\* The hash fails to be injective on the two transcripts of the state: the prover
\* and the verifier absorb different sequences and read the same challenge.
LogStarChallengeCollision ==
    LET prover == LogStarTranscriptOf(sigma.sent, LogStarStatement(sigma.inputs))
        verifier == LogStarTranscriptOf(sigma.proof, sigma.statement)
    IN  prover # verifier /\ log_star_challenge_of(prover) = log_star_challenge_of(verifier)

\* The proof differs from the one sent in z2 alone, by a multiple of the Paillier
\* modulus, or in z3 alone, by a multiple of the order of the ring-Pedersen group.
LogStarEquivalentResponse ==
    /\ sigma.statement = LogStarStatement(sigma.inputs)
    /\ \/ /\ sigma.proof = [sigma.sent EXCEPT !.z2 = sigma.proof.z2]
          /\ (sigma.proof.z2 - sigma.sent.z2) % sigma.statement.pk0 = 0
       \/ /\ sigma.proof = [sigma.sent EXCEPT !.z3 = sigma.proof.z3]
          /\ (sigma.proof.z3 - sigma.sent.z3) % sigma.statement.setup.order = 0

\* C36 as stated: where the hash is injective on the transcripts, verify returns
\* false whenever an input of the verifier differs from the prover's and whenever a
\* single commitment or response field of the proof is changed.
C36_MutationsRejected ==
    (LogStarMutated /\ ~LogStarChallengeCollision) => (~sigma.panicked /\ ~sigma.verdict)

\* C36, amended: where the hash is injective on the transcripts, verify never returns
\* true when an input of the verifier differs from the prover's or a single
\* commitment or response field of the proof is changed to another value, except for
\* a response z2 changed by a multiple of the Paillier modulus and a response z3
\* changed by a multiple of the order of the ring-Pedersen group, which leave the
\* verdict what it is for the proof as sent; it returns false, unless the public key
\* is not the key of the ciphertext, which fails its assertion.
C36_MutationsNeverAccepted ==
    (LogStarMutated /\ ~LogStarChallengeCollision) =>
        /\ ~LogStarEquivalentResponse => ~sigma.verdict
        /\ sigma.panicked <=> sigma.statement.cap_c.pk # sigma.statement.pk0
        /\ sigma.panicked <=> sigma.mutation = "pk0_alone"
        /\ LogStarEquivalentResponse =>
              sigma.verdict = log_star_LogStarProof_verify(
                                  sigma.sent, sigma.statement.pk0, sigma.statement.cap_c,
                                  sigma.statement.g, sigma.statement.cap_x,
                                  sigma.statement.setup, sigma.statement.aux)

C36_Witness ==
    /\ LogStarMutated /\ ~LogStarChallengeCollision
    /\ sigma.mutation = "aux"
    /\ sigma.statement.aux # sigma.inputs.aux
    /\ LET sent == LogStarStatement(sigma.inputs)
       IN  log_star_LogStarProof_verify(sigma.sent, sent.pk0, sent.cap_c, sent.g,
                                        sent.cap_x, sent.setup, sent.aux)
    /\ LogStarEquationsHold(sigma.proof, sigma.statement, sigma.statement.setup,
                            sigma.proof.e)
    /\ ~sigma.verdict

\* C37: the success branch of pre-signing Round 3 finalize never panics: whenever a
\* party has taken every peer's Round 3 message and the deltas and Deltas it holds
\* satisfy g * delta = Delta, the sum delta = 0 with Delta the identity included, it
\* inverts delta and returns PresigningData.
C37_SuccessBranchReturnsData ==
    stage = "presigned" =>
        \A i \in Parties :
            LET delta == PresigningRound3_delta(rounds[i], Round3Received(i))
                big_delta == PresigningRound3_big_delta(rounds[i], Round3Received(i))
            IN  (results[i].kind # "provable" /\ mul_by_generator(delta) = big_delta) =>
                    /\ results[i].kind # "panic"
                    /\ results[i].kind = "success"

\* C38: in an honest pre-signing run with consistent key shares no party is accused:
\* for every sender j, recipient i and proof of Rounds 1 to 3, the keys, ciphertexts
\* (with the randomizers they were made with), points, ring-Pedersen setup and aux
\* that i passes to verify are those j made the proof with, and no party ends with a
\* provable error.
C38_HonestRunAccusesNoOne ==
    /\ tamper = NoTamper => \A i \in Parties : results[i].kind # "provable"
    /\ stage = "presigning2" =>
          \A i \in Parties : \A j \in Peers(i) :
              LET proof == PresigningRound1_make_direct_message(Round1Of(j), i)
                  bcast == PresigningRound1_make_broadcast(Round1Of(j))
                  ks == key_shares[i]
              IN  /\ proof.pk = ks.public_aux[j].paillier_pk
                  /\ proof.cap_k = bcast.k_ciphertext
                  /\ proof.randomizer = Round1Of(j).context.rho
                  /\ proof.rp = ks.public_aux[i].aux_rp_params
                  /\ proof.aux = <<shared_randomness, i>>
                  /\ proof.in_range
    /\ stage = "presigning3" =>
          \A i \in Parties : \A j \in Peers(i) :
              LET out == PresigningRound2_make_direct_message(Round2Of(j), i)
                  msg == out.msg
                  ks == key_shares[i]
                  statement(d, f, x) ==
                      [pk0 |-> ks.paillier_sk, pk1 |-> ks.public_aux[j].paillier_pk,
                       cap_c |-> Round2Of(i).k_ciphertexts[i], cap_d |-> d, cap_y |-> f,
                       cap_x |-> x, rp |-> ks.public_aux[i].aux_rp_params,
                       aux |-> <<shared_randomness, j>>]
                  made(proof) ==
                      [pk0 |-> proof.pk0, pk1 |-> proof.pk1, cap_c |-> proof.cap_c,
                       cap_d |-> proof.cap_d, cap_y |-> proof.cap_y, cap_x |-> proof.cap_x,
                       rp |-> proof.rp, aux |-> proof.aux]
              IN  /\ made(msg.psi) = statement(msg.d, msg.f, msg.gamma)
                  /\ msg.psi.s = out.artefact.s /\ msg.psi.r = out.artefact.r
                  /\ msg.psi.in_range
                  /\ made(msg.psi_hat) = statement(msg.d_hat, msg.f_hat, ks.public_shares[j])
                  /\ msg.psi_hat.s = out.artefact.hat_s /\ msg.psi_hat.r = out.artefact.hat_r
                  /\ msg.psi_hat.in_range
                  /\ msg.psi_hat_prime.pk = ks.public_aux[j].paillier_pk
                  /\ msg.psi_hat_prime.cap_c = Round2Of(i).g_ciphertexts[j]
                  /\ msg.psi_hat_prime.rho = Round1Of(j).context.nu
                  /\ msg.psi_hat_prime.g = GENERATOR
                  /\ msg.psi_hat_prime.cap_x = msg.gamma
                  /\ msg.psi_hat_prime.rp = ks.public_aux[i].aux_rp_params
                  /\ msg.psi_hat_prime.aux = <<shared_randomness, j>>
                  /\ msg.psi_hat_prime.in_range
    /\ (stage = "presigned" /\ tamper = NoTamper) =>
          \A i \in Parties : \A j \in Peers(i) :
              LET msg == PresigningRound3_make_direct_message(rounds[j], i)
                  proof == msg.psi_hat_pprime
                  ks == key_shares[i]
              IN  /\ proof.pk = ks.public_aux[j].paillier_pk
                  /\ proof.cap_c = rounds[i].k_ciphertexts[j]
                  /\ proof.rho = Round1Of(j).context.rho
                  /\ proof.g = rounds[i].big_gamma
                  /\ proof.cap_x = msg.big_delta
                  /\ proof.rp = ks.public_aux[i].aux_rp_params
                  /\ proof.aux = <<shared_randomness, j>>
                  /\ proof.in_range

C38_Witness ==
    /\ stage = "presigned"
    /\ tamper = NoTamper
    /\ num_parties = 3
    /\ \A i \in Parties :
          /\ results[i].kind = "success"
          /\ rounds[i].context.rho # rounds[i].context.nu
          /\ key_shares[i].secret_share # 0
    /\ \E i \in Parties : \E j \in Peers(i) :
          rounds[i].k_ciphertexts[j] # rounds[i].g_ciphertexts[j]

\* The widths of the toy integers: a prime of a Paillier modulus fits PaillierPrimeBits
\* bits, the integers of the Signed values twice as many.
PaillierPrimeBits == 7

PaillierUintBits == 2 * PaillierPrimeBits

\* The bound asserted of alpha in Round 2.
AlphaBound == Max(2 * L_BOUND, LP_BOUND) + 1

\* The bound of delta_i as the Signed arithmetic grows it for n parties: a product
\* has the sum of the bounds, a sum one more than the larger bound, and a sum of n - 1
\* values grows by at most n - 1.
DeltaBound(n) == Max(Max(2 * L_BOUND, AlphaBound + n - 1) + 1, LP_BOUND + n - 1) + 1

\* C39: in an honest pre-signing run every alpha decrypted in Round 2 is k_i * gamma_j
\* less the sender's mask beta, of magnitude within max(2l, l') + 1 bits, so that the
\* assertion of verify_direct_message holds, and delta_i of Round 2 finalize stays
\* within the bound its sums grow to, which is below the width of the integer.
C39_AlphaWithinBound ==
    /\ \A i \in Parties :
          ~(results[i].kind = "panic" /\ results[i].error = "assert_bound_usize")
    /\ stage = "presigning2" =>
          \A i \in Parties :
              \A j \in Peers(i) :
                    LET out == PresigningRound2_make_direct_message(Round2Of(j), i)
                        got == PresigningRound2_verify_direct_message(Round2Of(i), j, out.msg)
                        k == Round1Of(i).context.ephemeral_scalar_share
                        gamma == Round1Of(j).context.gamma
                    IN  /\ Abs(out.artefact.beta) <= Pow2(LP_BOUND)
                        /\ got.kind = "payload"
                        /\ got.payload.alpha = k * gamma - out.artefact.beta
                        /\ Abs(got.payload.alpha) < Pow2(AlphaBound)
    /\ stage = "presigning3" =>
          \A i \in Parties :
              /\ rounds[i].delta =
                    rounds[i].context.gamma * rounds[i].context.ephemeral_scalar_share
                    + SumOver([j \in Peers(i) |-> Round2Payloads(i)[j].alpha], Peers(i))
                    + SumOver([j \in Peers(i) |-> Round2Artefacts(i)[j].beta], Peers(i))
              /\ Abs(rounds[i].delta) < Pow2(DeltaBound(num_parties))
              /\ DeltaBound(num_parties) < PaillierUintBits
              /\ \A j \in Parties : PaillierModulus(j) < Pow2(PaillierUintBits)

C39_Witness ==
    /\ stage = "presigning3"
    /\ \E i \in Parties : \E j \in Peers(i) :
          /\ Round1Of(i).context.ephemeral_scalar_share = CurveOrder - 1
          /\ Round1Of(j).context.gamma = CurveOrder - 1
          /\ Round2Artefacts(j)[i].beta = 0 - Pow2(LP_BOUND)
          /\ Round2Payloads(i)[j].alpha
                = (CurveOrder - 1) * (CurveOrder - 1) + Pow2(LP_BOUND)
          /\ Abs(rounds[i].delta) > Pow2(2 * L_BOUND)

\* C40: KeyShare::update and KeyShare::new keep the shape of the key share for every
\* change they are given: the result has as many public entries as the input share (or
\* seed), its index is a position of its public list, and after update the index is the
\* input share's index.
C40_UpdateKeepsShape ==
    /\ ks_update.stage = "updated" =>
          /\ KeyShare_num_parties(ks_update.output) = KeyShare_num_parties(ks_update.input)
          /\ KeyShare_party_index(ks_update.output) = KeyShare_party_index(ks_update.input)
          /\ KeyShare_party_index(ks_update.output) < KeyShare_num_parties(ks_update.output)
    /\ ks_update.stage = "created" =>
          /\ KeyShare_num_parties(ks_update.output) = Len(ks_update.input.share_pk)
          /\ KeyShare_party_index(ks_update.output) < KeyShare_num_parties(ks_update.output)

====
